---- MODULE Spec2Model ----
(***************************************************************************)
(* Billing-event reconciliation of adob_sense: the Stripe webhook receiver *)
(* (pages/api/webhook.ts), the free-trial activation (lib/subscriptions.ts)*)
(* and the endpoints that write the Firestore user record.                 *)
(*                                                                         *)
(* Firestore documents are functions from the names of the fields they     *)
(* hold to tagged values; a collection is a function from the ids of the   *)
(* documents that exist. set(..., {merge: true}) is Merge.                 *)
(***************************************************************************)
EXTENDS Integers, FiniteSets, Sequences, TLC

\* ------------------------------------------------------------------ bounds
\* Number of webhook deliveries (HTTP requests to /api/webhook) in a run.
MaxDeliveries == 2
\* Date.now() never exceeds this many ticks.
MaxNow == 2
\* Largest current_period_end (unix seconds) a subscription snapshot carries.
MaxPeriodEnd == 2
\* Amount of the one charge, in minor units.
MaxAmount == 3
\* Number of calls of the client library and of the other endpoints in a run.
MaxCalls == 2
\* Number of requests of any kind in a run that mixes them.
MaxOps == 2

\* ------------------------------------------------------- program constants
\* new Date(currentPeriodEnd * 1000): seconds to milliseconds.
MsPerSecond == 1000
\* addDays(new Date(), 7): the length of the free trial.
TrialDays == 7

\* ------------------------------------------------------------ stored values
Null == <<"null">>
Str(s) == <<"str", s>>
Num(n) == <<"num", n>>
Bool(b) == <<"bool", b>>
\* A JS Date / Firestore Timestamp holding the instant ms.
DateOf(ms) == <<"date", ms>>
\* Date.toISOString() of the date days calendar days after the instant ms: a
\* string, not a Date.
IsoString(ms, days) == <<"iso", ms, days>>
\* What a read of a field the document does not hold yields (undefined).
Undefined == <<"undefined">>
\* A local that holds null / undefined instead of an object.
Nil == [nil |-> TRUE]

Field(doc, f) == IF f \in DOMAIN doc THEN doc[f] ELSE Undefined

\* ------------------------------------------------------------------ domains
Uids == {"u1", "u2"}
\* The signed-in user the calls are made for.
Callers == {"u1"}
\* The customer the processor's events are about.
Customers == {"cus_1"}
EventIds == {"evt_1", "evt_2"}
Deliveries == 1..MaxDeliveries
Calls == 1..MaxCalls
PeriodEnds == 1..MaxPeriodEnd
Statuses == {"active", "past_due"}
Tiers == {"ADOB_SENSE", "DOBE_ONE", "DEMANDX"}
PriceIds == {"price_adobsense", "price_dobeone", "price_demandx", "price_other"}

\* Map Stripe price IDs -> internal tier names; "" for an unmapped price.
PRICE_TO_TIER(priceId) ==
  CASE priceId = "price_adobsense" -> "ADOB_SENSE"
    [] priceId = "price_dobeone" -> "DOBE_ONE"
    [] priceId = "price_demandx" -> "DEMANDX"
    [] OTHER -> ""

\* ------------------------------------------------------ processor objects
\* Stripe.Subscription, with the fields the handlers read. A subscription
\* flagged cancel_at_period_end carries cancel_at = current_period_end.
Subscriptions ==
  [id : {"sub_1"}, customer : Customers, price : PriceIds,
   current_period_end : PeriodEnds, status : Statuses,
   cancel_at_period_end : BOOLEAN]

\* Stripe.Charge of amount MaxAmount after one or more refunds; refund is the
\* amount of the refund the event reports, customer "" a charge without one.
Charges ==
  {[id |-> "ch_1", customer |-> c, amount |-> MaxAmount,
    amount_refunded |-> ar, refund |-> r] :
     c \in Customers \cup {""}, ar \in 1..MaxAmount, r \in 1..MaxAmount}

RefundedCharges == {ch \in Charges : ch.refund <= ch.amount_refunded}

SubscriptionEventTypes ==
  {"customer.subscription.created", "customer.subscription.updated"}
InvoiceEventTypes == {"invoice.payment_succeeded", "invoice.payment_failed"}
ChargeEventTypes == {"charge.refunded", "charge.refund.updated"}
RefundEventTypes == ChargeEventTypes \cup {"refund.created"}

\* event.created, the processor's timestamp of the event: evt_1 is the older.
Created(i) == IF i = "evt_1" THEN 1 ELSE 2

\* Stripe.Event without id and created: what the processor can send about
\* the subscription states subs and the charge states charges.
PayloadsOver(subs, charges) ==
  {[type |-> "checkout.session.completed",
    object |-> [customer |-> c, subscription |-> s]] :
     c \in Customers, s \in {"sub_1", ""}}
  \cup {[type |-> "customer.subscription.created", object |-> sub] :
     sub \in {s \in subs : ~s.cancel_at_period_end}}
  \cup {[type |-> "customer.subscription.updated", object |-> sub] : sub \in subs}
  \cup {[type |-> "customer.subscription.deleted",
         object |-> [customer |-> c]] : c \in Customers}
  \cup {[type |-> t, object |-> [subscription |-> s]] :
     t \in InvoiceEventTypes, s \in {"sub_1", ""}}
  \cup {[type |-> t, object |-> ch] : t \in ChargeEventTypes, ch \in charges}
  \cup {[type |-> "refund.created",
         object |-> [charge |-> ch.id, amount |-> ch.refund]] : ch \in charges}
  \cup {[type |-> "customer.created", object |-> Nil]}

\* What the processor is taken to hold: every subscription state and every
\* state of the charge.
Stripe == [subs |-> Subscriptions, charges |-> RefundedCharges]

Payloads == PayloadsOver(Stripe.subs, Stripe.charges)

\* Stripe.Event: payload p sent under event id i.
Event(i, p) ==
  [id |-> i, created |-> Created(i), type |-> p.type, object |-> p.object]

\* The runs in which deliveries overlap keep to these event types.
ConcurrentEventTypes ==
  {"customer.subscription.deleted", "refund.created", "customer.created"}

PayloadsConcurrent == {p \in Payloads : p.type \in ConcurrentEventTypes}

\* ------------------------------------------------------------------- state
VARIABLES
  users,    \* Firestore collection "users": uid -> document
  customers, \* the processor's customers: id -> metadata.uid ("" when absent)
  markers,  \* Firestore collection "_stripe_events": event id -> document
  now,      \* the last value Date.now() returned
  pc,       \* per delivery: where handler() stands
  dEv,      \* per delivery: the event constructEvent() returned (Nil before)
  dSig,     \* per delivery: whether the signature verified
  dObj,     \* per delivery: the subscription / charge retrieved (sub, ch)
  dRef,     \* per delivery: the uid of userRef ("" while null)
  resp,     \* per delivery: the response sent ("" while none)
  mw,       \* per delivery: writes to "_stripe_events" so far
  uw,       \* per delivery: writes to "users" so far
  dPrior,   \* per delivery: an earlier delivery of its event had answered 200
  cpc,      \* per call: where the called function stands
  cOp,      \* per call: the function called and its arguments (Nil before)
  cLocal,   \* per call: its local endIso / customerId (Nil while unset)
  cRes,     \* per call: what it returned, threw or answered ("" while nothing)
  billing   \* the processor's books on the caller's customer: the charge of
            \* its most recent invoice and its most recent charge ("": none)

callVars == <<cpc, cOp, cLocal, cRes>>

vars == <<users, customers, markers, now, pc, dEv, dSig, dObj, dRef, resp, mw, uw, dPrior, cpc, cOp, cLocal, cRes, billing>>

\* ----------------------------------------------------------------- helpers
\* Date.now() / new Date() in a stretch of code without an await: later than
\* in the stretch that read the clock before, up to MaxNow.
ClockRead == IF now < MaxNow THEN now + 1 ELSE now

\* A set() without {merge: true}: the document becomes the patch.
MergeDocReplacing(doc, patch) == patch

\* DocumentReference.set(patch, {merge: true}): the fields of patch replace
\* the stored ones, every other field stays, an absent document is created.
MergeDoc(doc, patch) == patch @@ doc

StoredDoc(docs, id) == IF id \in DOMAIN docs THEN docs[id] ELSE <<>>

Merge(docs, id, patch) == (id :> MergeDoc(StoredDoc(docs, id), patch)) @@ docs

\* DocumentReference.set(data): the document is replaced.
Overwrite(docs, id, data) == (id :> data) @@ docs

\* currentPeriodEnd ? new Date(currentPeriodEnd * 1000) : null  (0 is null)
EndDate(currentPeriodEnd) ==
  IF currentPeriodEnd # 0 THEN DateOf(currentPeriodEnd * MsPerSecond) ELSE Null

\* x ?? null for an optional string ("" is undefined)
OrNull(s) == IF s = "" THEN Null ELSE Str(s)

\* A lookup that, finding no user, takes the customer id for a uid.
getUserRefForCustomerOrCustomerDoc(customerId) ==
  LET q == {u \in DOMAIN users :
              Field(users[u], "stripeCustomerId") = Str(customerId)}
  IN IF q # {} THEN q
     ELSE {IF customers[customerId] # "" THEN customers[customerId] ELSE customerId}

\* Resolve user doc ref for a given Stripe customer ID: the users whose
\* stripeCustomerId is customerId (limit 1 returns one of them), else the
\* uid of the customer's metadata, else null ("").
getUserRefForCustomer(customerId) ==
  LET q == {u \in DOMAIN users :
              Field(users[u], "stripeCustomerId") = Str(customerId)}
  IN IF q # {} THEN q ELSE {customers[customerId]}

\* A setUserSubscription that counts the period from the time of the write.
setUserSubscriptionFromNow(tier, currentPeriodEnd, status, stripeCustomerId, subscriptionId, t) ==
  [subscriptionType |-> Str(tier),
   subscriptionStatus |-> Str(status),
   subscriptionEndDate |-> EndDate(t + currentPeriodEnd),
   stripeCustomerId |-> OrNull(stripeCustomerId),
   stripeSubscriptionId |-> OrNull(subscriptionId),
   updatedAt |-> Num(t)]

\* A setUserSubscription that stores current_period_end without the
\* conversion from seconds to milliseconds.
setUserSubscriptionInSeconds(tier, currentPeriodEnd, status, stripeCustomerId, subscriptionId, t) ==
  [subscriptionType |-> Str(tier),
   subscriptionStatus |-> Str(status),
   subscriptionEndDate |-> IF currentPeriodEnd # 0 THEN DateOf(currentPeriodEnd) ELSE Null,
   stripeCustomerId |-> OrNull(stripeCustomerId),
   stripeSubscriptionId |-> OrNull(subscriptionId),
   updatedAt |-> Num(t)]

\* Set plan + end date (+ status) for user: the fields written.
setUserSubscription(tier, currentPeriodEnd, status, stripeCustomerId, subscriptionId, t) ==
  [subscriptionType |-> Str(tier),
   subscriptionStatus |-> Str(status),
   subscriptionEndDate |-> EndDate(currentPeriodEnd),
   stripeCustomerId |-> OrNull(stripeCustomerId),
   stripeSubscriptionId |-> OrNull(subscriptionId),
   updatedAt |-> Num(t)]

\* A setUserToFree that leaves the stored end date in place.
setUserToFreeKeepingEndDate(reason, t) ==
  [subscriptionType |-> Str("HIPSESSION"),
   subscriptionStatus |-> Str("canceled"),
   updatedAt |-> Num(t),
   lastDowngradeReason |-> Str(reason)]

\* Downgrade to free (HIPSESSION): the fields written.
setUserToFree(reason, t) ==
  [subscriptionType |-> Str("HIPSESSION"),
   subscriptionStatus |-> Str("canceled"),
   subscriptionEndDate |-> Null,
   updatedAt |-> Num(t),
   lastDowngradeReason |-> Str(reason)]

\* ------------------------------------------- pages/api/webhook.ts: handler
\* The object the switch works on without a call: the event's own.
LocalObject(e) ==
  IF e.type \in SubscriptionEventTypes \cup ChargeEventTypes
  THEN e.object ELSE Nil

\* Whether the case first awaits stripe.subscriptions.retrieve(subId) or
\* stripe.charges.retrieve(charge).
NeedsRetrieve(e) ==
  \/ e.type = "checkout.session.completed" /\ e.object.subscription # ""
  \/ e.type \in InvoiceEventTypes /\ e.object.subscription # ""
  \/ e.type = "refund.created"

\* What the processor stripe can answer to that retrieve.
Retrievable(e, stripe) ==
  CASE e.type = "checkout.session.completed" ->
         {sub \in stripe.subs : sub.customer = e.object.customer}
    [] e.type \in InvoiceEventTypes -> stripe.subs
    [] e.type = "refund.created" ->
         {ch \in stripe.charges : ch.refund = e.object.amount}
    [] OTHER -> {}

\* const customerId of the case; "" where the case breaks before it has one.
CustomerId(e, obj) ==
  CASE e.type = "checkout.session.completed" -> e.object.customer
    [] e.type \in SubscriptionEventTypes -> e.object.customer
    [] e.type = "customer.subscription.deleted" -> e.object.customer
    [] e.type \in InvoiceEventTypes -> IF obj = Nil THEN "" ELSE obj.customer
    [] e.type \in RefundEventTypes -> obj.customer
    [] OTHER -> ""

\* case "checkout.session.completed": the fields merge-written to userRef at
\* time t, sub the subscription retrieved (Nil without session.subscription).
checkoutSessionCompleted(session, sub, t) ==
  LET tier == IF sub = Nil THEN "" ELSE PRICE_TO_TIER(sub.price)
      end == IF sub = Nil THEN 0 ELSE sub.current_period_end
      status == IF sub = Nil THEN "active" ELSE sub.status
      subId == IF sub = Nil THEN "" ELSE sub.id
  IN IF tier # ""
     THEN setUserSubscription(tier, end, status, session.customer, subId, t)
     ELSE [stripeCustomerId |-> Str(session.customer),
           stripeSubscriptionId |-> OrNull(subId),
           subscriptionStatus |-> Str(status),
           subscriptionEndDate |-> EndDate(end),
           updatedAt |-> Num(t)]

\* A created / updated case that takes the tier away as soon as the
\* cancellation is scheduled.
customerSubscriptionUpdatedDowngrading(sub, t) ==
  IF sub.cancel_at_period_end
  THEN [subscriptionType |-> Str("HIPSESSION"),
        subscriptionCancelAt |-> Num(sub.current_period_end),
        subscriptionStatus |-> Str(sub.status),
        subscriptionEndDate |-> DateOf(sub.current_period_end * MsPerSecond),
        updatedAt |-> Num(t)]
  ELSE setUserSubscription(PRICE_TO_TIER(sub.price), sub.current_period_end, sub.status, sub.customer, sub.id, t)

\* case "customer.subscription.created" / "updated": the fields written.
customerSubscriptionUpdated(sub, t) ==
  LET tier == PRICE_TO_TIER(sub.price)
  IN IF sub.cancel_at_period_end
     THEN [subscriptionCancelAt |-> Num(sub.current_period_end),
           subscriptionStatus |-> Str(sub.status),
           subscriptionEndDate |-> DateOf(sub.current_period_end * MsPerSecond),
           updatedAt |-> Num(t)]
     ELSE IF tier # ""
     THEN setUserSubscription(tier, sub.current_period_end, sub.status, sub.customer, sub.id, t)
     ELSE [subscriptionStatus |-> Str(sub.status),
           subscriptionEndDate |-> EndDate(sub.current_period_end),
           stripeSubscriptionId |-> Str(sub.id),
           updatedAt |-> Num(t)]

\* case "invoice.payment_succeeded": the fields written; Nil: nothing is.
invoicePaymentSucceeded(sub, t) ==
  LET tier == PRICE_TO_TIER(sub.price)
  IN IF tier # ""
     THEN setUserSubscription(tier, sub.current_period_end, sub.status, sub.customer, sub.id, t)
     ELSE Nil

\* A payment_failed case that downgrades at once.
invoicePaymentFailedDowngrading(t) == setUserToFree("payment_failed", t)

\* case "invoice.payment_failed": mark as past_due; do not downgrade.
invoicePaymentFailed(t) ==
  [subscriptionStatus |-> Str("past_due"), updatedAt |-> Num(t)]

\* case "charge.refunded" / "charge.refund.updated" / "refund.created"
chargeRefunded(ch, t) ==
  LET isFullRefund == ch.amount_refunded # 0 /\ ch.amount_refunded = ch.amount
  IN IF isFullRefund
     THEN [lastRefundAt |-> Num(t),
           lastRefundAmount |-> Num(ch.amount_refunded),
           subscriptionStatus |-> Str("refunded"),
           updatedAt |-> Num(t)]
     ELSE [lastRefundAt |-> Num(t),
           lastRefundAmount |-> Num(ch.amount_refunded),
           updatedAt |-> Num(t)]

\* switch (event.type): the fields the case merge-writes to userRef at time
\* t; Nil: it writes nothing.
HandlerPatch(e, obj, t) ==
  CASE e.type = "checkout.session.completed" ->
         checkoutSessionCompleted(e.object, obj, t)
    [] e.type \in SubscriptionEventTypes -> customerSubscriptionUpdated(obj, t)
    [] e.type = "customer.subscription.deleted" ->
         setUserToFree("subscription.deleted", t)
    [] e.type = "invoice.payment_succeeded" -> invoicePaymentSucceeded(obj, t)
    [] e.type = "invoice.payment_failed" -> invoicePaymentFailed(t)
    [] e.type \in RefundEventTypes -> chargeRefunded(obj, t)
    [] OTHER -> Nil

\* Where handler() stands once the case holds its object: at
\* getUserRefForCustomer, or past the switch (break) at the 200.
AfterObject(e, obj) == IF CustomerId(e, obj) = "" THEN "done" ELSE "resolve"

\* res.status(status): the request is over and its locals are gone; of the
\* event only the id and the type are remembered.
Respond(d, e, status) ==
  /\ pc' = [pc EXCEPT ![d] = "done"]
  /\ resp' = [resp EXCEPT ![d] = status]
  /\ dEv' = [dEv EXCEPT ![d] = [id |-> e.id, created |-> e.created, type |-> e.type, object |-> Nil]]
  /\ dObj' = [dObj EXCEPT ![d] = Nil]

\* A receiver that takes the event from the body without verifying.
constructEventUnverified(signatureVerifies) == TRUE

\* A dedup check that never finds the marker.
snapNeverExists(eventId) == FALSE

\* stripe.webhooks.constructEvent: whether it returns the event (it throws
\* when the signature does not verify).
constructEvent(signatureVerifies) == signatureVerifies

\* snap.exists of the marker document of eventId
snapExists(eventId) == eventId \in DOMAIN markers

\* A request arrives; constructEvent verifies the signature over the raw
\* body: on failure 400, else the event, one of payloads under one of ids.
\* One event id always carries the same event.
Arrive(d, ids, payloads) ==
  /\ pc[d] = "idle"
  /\ \E i \in ids, ok \in BOOLEAN :
       /\ dSig' = [dSig EXCEPT ![d] = ok]
       /\ dPrior' = [dPrior EXCEPT ![d] =
            \E d2 \in Deliveries : /\ pc[d2] = "done"
                                   /\ dEv[d2].id = i
                                   /\ resp[d2] \in {"200", "200 duplicate"}]
       /\ IF constructEvent(ok)
          THEN /\ \E e \in {Event(i, p) : p \in payloads} :
                    /\ \A d2 \in Deliveries :
                         (dSig[d2] /\ dEv[d2] # Nil /\ dEv[d2].id = i)
                           => /\ dEv[d2].type = e.type
                              /\ pc[d2] # "done" => dEv[d2] = e
                    /\ dEv' = [dEv EXCEPT ![d] = e]
               /\ pc' = [pc EXCEPT ![d] = "alreadyProcessed.get"]
               /\ UNCHANGED <<resp, dObj>>
          ELSE Respond(d, [id |-> i, created |-> Created(i), type |-> "unverified"], "400")
  /\ UNCHANGED <<users, customers, markers, now, dRef, mw, uw>>
  /\ UNCHANGED <<callVars, billing>>

\* Deliveries one after the other, numbered as they arrive.
Receive(d) ==
  /\ \A d2 \in Deliveries : d2 < d => pc[d2] = "done"
  /\ Arrive(d, EventIds, Payloads)

\* Deliveries that overlap, numbered as they arrive.
ReceiveConcurrent(d) ==
  /\ \A d2 \in Deliveries : d2 < d => pc[d2] # "idle"
  /\ Arrive(d, EventIds, PayloadsConcurrent)

\* alreadyProcessed: const snap = await ref.get(); if (snap.exists) return true
AlreadyProcessedGet(d) ==
  /\ pc[d] = "alreadyProcessed.get"
  /\ IF snapExists(dEv[d].id)
     THEN Respond(d, dEv[d], "200 duplicate")
     ELSE /\ pc' = [pc EXCEPT ![d] = "alreadyProcessed.set"]
          /\ UNCHANGED <<resp, dEv, dObj>>
  /\ UNCHANGED <<users, customers, markers, now, dSig, dRef, mw, uw, dPrior>>
  /\ UNCHANGED <<callVars, billing>>

\* alreadyProcessed: await ref.set({ processedAt: Date.now() }); return false,
\* and the switch up to its first await.
AlreadyProcessedSet(d) ==
  /\ pc[d] = "alreadyProcessed.set"
  /\ now' = ClockRead
  /\ markers' = Overwrite(markers, dEv[d].id, [processedAt |-> Num(ClockRead)])
  /\ mw' = [mw EXCEPT ![d] = @ + 1]
  /\ LET e == dEv[d]
     IN IF NeedsRetrieve(e)
        THEN /\ pc' = [pc EXCEPT ![d] = "retrieve"]
             /\ UNCHANGED <<resp, dEv, dObj>>
        ELSE IF AfterObject(e, LocalObject(e)) = "done"
        THEN Respond(d, e, "200")
        ELSE /\ pc' = [pc EXCEPT ![d] = "resolve"]
             /\ dObj' = [dObj EXCEPT ![d] = LocalObject(e)]
             /\ UNCHANGED <<resp, dEv>>
  /\ UNCHANGED <<users, customers, dSig, dRef, uw, dPrior>>
  /\ UNCHANGED <<callVars, billing>>

\* await stripe.subscriptions.retrieve(subId) / stripe.charges.retrieve(charge)
RetrieveFrom(d, stripe) ==
  /\ pc[d] = "retrieve"
  /\ \E obj \in Retrievable(dEv[d], stripe) :
       IF AfterObject(dEv[d], obj) = "done"
       THEN Respond(d, dEv[d], "200")
       ELSE /\ pc' = [pc EXCEPT ![d] = "resolve"]
            /\ dObj' = [dObj EXCEPT ![d] = obj]
            /\ UNCHANGED <<resp, dEv>>
  /\ UNCHANGED <<users, customers, markers, now, dSig, dRef, mw, uw, dPrior>>
  /\ UNCHANGED <<callVars, billing>>

Retrieve(d) == RetrieveFrom(d, Stripe)

\* const userRef = await getUserRefForCustomer(customerId); if (!userRef) break;
\* and the case up to its write.
Resolve(d) ==
  /\ pc[d] = "resolve"
  /\ \E ref \in getUserRefForCustomer(CustomerId(dEv[d], dObj[d])) :
       IF ref = "" \/ HandlerPatch(dEv[d], dObj[d], now) = Nil
       THEN Respond(d, dEv[d], "200") /\ UNCHANGED dRef
       ELSE /\ pc' = [pc EXCEPT ![d] = "write"]
            /\ dRef' = [dRef EXCEPT ![d] = ref]
            /\ UNCHANGED <<resp, dEv, dObj>>
  /\ UNCHANGED <<users, customers, markers, now, dSig, mw, uw, dPrior>>
  /\ UNCHANGED <<callVars, billing>>

\* A case without its break: after the write the next case writes again.
WriteFallingThrough(d) ==
  /\ pc[d] = "write"
  /\ now' = ClockRead
  /\ users' = Merge(users, dRef[d], HandlerPatch(dEv[d], dObj[d], ClockRead))
  /\ uw' = [uw EXCEPT ![d] = @ + 1]
  /\ IF uw[d] = 0
     THEN UNCHANGED <<pc, resp, dEv, dObj>>
     ELSE Respond(d, dEv[d], "200")
  /\ UNCHANGED <<customers, markers, dSig, dRef, mw, dPrior>>
  /\ UNCHANGED <<callVars, billing>>

\* await userRef.set({...}, { merge: true }); break; res.status(200)
Write(d) ==
  /\ pc[d] = "write"
  /\ now' = ClockRead
  /\ users' = Merge(users, dRef[d], HandlerPatch(dEv[d], dObj[d], ClockRead))
  /\ uw' = [uw EXCEPT ![d] = @ + 1]
  /\ Respond(d, dEv[d], "200")
  /\ UNCHANGED <<customers, markers, dSig, dRef, mw, dPrior>>
  /\ UNCHANGED <<callVars, billing>>

\* A catch that takes the marker back before it answers 500.
FailUnmarking(d) ==
  /\ pc[d] \in {"alreadyProcessed.get", "alreadyProcessed.set", "retrieve", "resolve", "write"}
  /\ markers' = [i \in DOMAIN markers \ {dEv[d].id} |-> markers[i]]
  /\ Respond(d, dEv[d], "500")
  /\ UNCHANGED <<users, customers, now, dSig, dRef, mw, uw, dPrior>>
  /\ UNCHANGED <<callVars, billing>>

\* A catch that logs the error and sends no response.
FailUnanswered(d) ==
  /\ pc[d] \in {"alreadyProcessed.get", "alreadyProcessed.set", "retrieve", "resolve", "write"}
  /\ Respond(d, dEv[d], "")
  /\ UNCHANGED <<users, customers, markers, now, dSig, dRef, mw, uw, dPrior>>
  /\ UNCHANGED <<callVars, billing>>

\* An awaited call rejects: catch (err) -> res.status(500)
Fail(d) ==
  /\ pc[d] \in {"alreadyProcessed.get", "alreadyProcessed.set", "retrieve", "resolve", "write"}
  /\ Respond(d, dEv[d], "500")
  /\ UNCHANGED <<users, customers, markers, now, dSig, dRef, mw, uw, dPrior>>
  /\ UNCHANGED <<callVars, billing>>

\* ------------------------------------------------------------------- calls
delivVars == <<pc, dEv, dSig, dObj, dRef, resp, mw, uw, dPrior>>

\* A function is called with arguments op; calls are numbered as they start.
Call(c, op, at) ==
  /\ cpc[c] = "idle"
  /\ \A c2 \in Calls : c2 < c => cpc[c2] # "idle"
  /\ cpc' = [cpc EXCEPT ![c] = at]
  /\ cOp' = [cOp EXCEPT ![c] = op]
  /\ UNCHANGED <<cLocal, cRes>>

\* The call continues at its next await.
Goto(c, at) ==
  /\ cpc' = [cpc EXCEPT ![c] = at]
  /\ UNCHANGED <<cOp, cRes>>

\* What is remembered of a call that is over: the function and the user.
Digest(op) == [op |-> op.op, uid |-> op.uid]

\* The call is over with result res (returned, thrown or answered); its
\* arguments and locals are gone.
Return(c, res) ==
  /\ cpc' = [cpc EXCEPT ![c] = "done"]
  /\ cRes' = [cRes EXCEPT ![c] = res]
  /\ cLocal' = [cLocal EXCEPT ![c] = Nil]
  /\ cOp' = [cOp EXCEPT ![c] = Digest(@)]

\* A request with arguments op is answered res before its first await.
Answer(c, op, res) ==
  /\ cpc[c] = "idle"
  /\ \A c2 \in Calls : c2 < c => cpc[c2] # "idle"
  /\ cpc' = [cpc EXCEPT ![c] = "done"]
  /\ cOp' = [cOp EXCEPT ![c] = Digest(op)]
  /\ cRes' = [cRes EXCEPT ![c] = res]
  /\ UNCHANGED cLocal

\* ------------------- lib/subscriptions.ts, lib/subscription.ts, TrialBanner
\* startFreeTrial(uid) of either library file; TrialBanner's handleStartTrial
\* calls the one of lib/subscriptions.ts.
StartFreeTrialOps ==
  [op : {"startFreeTrial"}, lib : {"subscriptions", "subscription"}, uid : Callers]

\* The fields startFreeTrial writes at time t; the trial ends TrialDays later.
startFreeTrialPatch(lib, t) ==
  IF lib = "subscriptions"
  THEN [subscriptionType |-> Str("FREETRIAL"),
        subEndIso |-> IsoString(t, TrialDays),
        subscriptionEndDate |-> IsoString(t, TrialDays),
        status |-> Str("ACTIVE"),
        trialUsed |-> Bool(TRUE),
        updatedAt |-> IsoString(t, 0)]
  ELSE [subscriptionType |-> Str("FREETRIAL"),
        subEndIso |-> IsoString(t, TrialDays),
        status |-> Str("ACTIVE"),
        trialUsed |-> Bool(TRUE),
        updatedAt |-> IsoString(t, 0)]

\* startFreeTrial(uid) is called.
StartFreeTrial(c) ==
  /\ \E op \in StartFreeTrialOps : Call(c, op, "startFreeTrial.getDoc")
  /\ UNCHANGED <<users, customers, markers, now>>
  /\ UNCHANGED <<delivVars, billing>>

\* const snap = await getDoc(ref); if (user.trialUsed === true) throw
StartFreeTrialGet(c) ==
  /\ cpc[c] = "startFreeTrial.getDoc"
  /\ IF Field(StoredDoc(users, cOp[c].uid), "trialUsed") = Bool(TRUE)
     THEN Return(c, "Free trial already used.")
     ELSE Goto(c, "startFreeTrial.setDoc") /\ UNCHANGED cLocal
  /\ UNCHANGED <<users, customers, markers, now>>
  /\ UNCHANGED <<delivVars, billing>>

\* await setDoc(ref, {...}, { merge: true }); return endIso
StartFreeTrialSet(c) ==
  /\ cpc[c] = "startFreeTrial.setDoc"
  /\ now' = ClockRead
  /\ users' = Merge(users, cOp[c].uid, startFreeTrialPatch(cOp[c].lib, ClockRead))
  /\ cRes' = [cRes EXCEPT ![c] = "returned"]
  /\ IF cOp[c].lib = "subscriptions"
     THEN /\ cpc' = [cpc EXCEPT ![c] = "handleStartTrial.setDoc"]
          /\ cLocal' = [cLocal EXCEPT ![c] = IsoString(ClockRead, TrialDays)]
     ELSE /\ cpc' = [cpc EXCEPT ![c] = "done"]
          /\ UNCHANGED cLocal
  /\ cOp' = [cOp EXCEPT ![c] = IF @.lib = "subscriptions" THEN @ ELSE Digest(@)]
  /\ UNCHANGED <<customers, markers>>
  /\ UNCHANGED <<delivVars, billing>>

\* handleStartTrial: Optimistic reflect in user doc for immediate UI
HandleStartTrialSet(c) ==
  /\ cpc[c] = "handleStartTrial.setDoc"
  /\ users' = Merge(users, cOp[c].uid,
                    [subscriptionType |-> Str("FREETRIAL"),
                     subEndIso |-> cLocal[c],
                     trialUsed |-> Bool(TRUE),
                     status |-> Str("ACTIVE")])
  /\ Return(c, "returned")
  /\ UNCHANGED <<customers, markers, now>>
  /\ UNCHANGED <<delivVars, billing>>

\* getDoc or setDoc rejects: startFreeTrial throws; the banner's own setDoc
\* rejects: handleStartTrial catches, startFreeTrial had returned.
StartFreeTrialFail(c) ==
  /\ cpc[c] \in {"startFreeTrial.getDoc", "startFreeTrial.setDoc", "handleStartTrial.setDoc"}
  /\ Return(c, IF cpc[c] = "handleStartTrial.setDoc" THEN "returned" ELSE "rejected")
  /\ UNCHANGED <<users, customers, markers, now>>
  /\ UNCHANGED <<delivVars, billing>>

StartFreeTrialStep(c) ==
  \/ StartFreeTrialGet(c)
  \/ StartFreeTrialSet(c)
  \/ HandleStartTrialSet(c)
  \/ StartFreeTrialFail(c)

\* ------------------------------------------- customers made by the endpoints
\* customer.id of the customer stripe.customers.create returns to call c
NewCustomerId(c) == "cus_n" \o ToString(c)

\* userData?.stripeCustomerId where it is truthy, else ""
StoredCustomerId(uid) ==
  LET v == Field(StoredDoc(users, uid), "stripeCustomerId")
  IN IF v[1] = "str" /\ v[2] # "" THEN v[2] ELSE ""

\* A lookup that ignores the stored customer id and always creates one.
GetCustomerAlwaysCreating(c, has) ==
  /\ Goto(c, "customers.create")
  /\ UNCHANGED cLocal
  /\ UNCHANGED <<users, customers, markers, now>>
  /\ UNCHANGED <<delivVars, billing>>

\* const userSnap = await userRef.get(): with a customer id stored the call
\* goes on at has, else at stripe.customers.create.
GetCustomer(c, has) ==
  /\ IF StoredCustomerId(cOp[c].uid) # ""
     THEN /\ Goto(c, has)
          /\ cLocal' = [cLocal EXCEPT ![c] = StoredCustomerId(cOp[c].uid)]
     ELSE /\ Goto(c, "customers.create")
          /\ UNCHANGED cLocal
  /\ UNCHANGED <<users, customers, markers, now>>
  /\ UNCHANGED <<delivVars, billing>>

\* const customer = await stripe.customers.create({ email, metadata: { uid } })
CustomersCreate(c) ==
  /\ cpc[c] = "customers.create"
  /\ customers' = (NewCustomerId(c) :> cOp[c].uid) @@ customers
  /\ cLocal' = [cLocal EXCEPT ![c] = NewCustomerId(c)]
  /\ Goto(c, "set")
  /\ UNCHANGED <<users, markers, now>>
  /\ UNCHANGED <<delivVars, billing>>

\* ------------------------------------------------------ pages/api/checkout.ts
\* PRICE_MAP[tier] of the object literal PRICE_MAP: the price of an own key,
\* what Object.prototype holds under an inherited name (for "constructor"
\* the function Object, which is truthy), "" (undefined) for any other.
PRICE_MAP(tier) ==
  CASE tier = "ADOB_SENSE" -> "price_adobsense"
    [] tier = "DOBE_ONE" -> "price_dobeone"
    [] tier = "DEMANDX" -> "price_demandx"
    [] tier = "constructor" -> "[Function: Object]"
    [] OTHER -> ""

\* GET /api/checkout?tier=..&uid=..
CheckoutOps ==
  [op : {"checkout"}, tier : Tiers \cup {"BOGUS", "constructor"}, uid : Callers \cup {""}]

Checkout(c) ==
  /\ \E op \in CheckoutOps :
       /\ Call(c, op, "get")
       /\ PRICE_MAP(op.tier) # ""
       /\ op.uid # ""
  /\ UNCHANGED <<users, customers, markers, now>>
  /\ UNCHANGED <<delivVars, billing>>

\* if (!price) return res.status(400); if (!uid) return res.status(401)
CheckoutRejected(c) ==
  /\ \E op \in CheckoutOps :
       /\ PRICE_MAP(op.tier) = "" \/ op.uid = ""
       /\ Answer(c, op, IF PRICE_MAP(op.tier) = "" THEN "400" ELSE "401")
  /\ UNCHANGED <<users, customers, markers, now>>
  /\ UNCHANGED <<delivVars, billing>>

CheckoutGet(c) ==
  /\ cpc[c] = "get" /\ cOp[c].op = "checkout"
  /\ GetCustomer(c, "sessions.create")

\* await userRef.set({ stripeCustomerId: customerId, updatedAt: Date.now() }, { merge: true })
CheckoutSet(c) ==
  /\ cpc[c] = "set" /\ cOp[c].op = "checkout"
  /\ now' = ClockRead
  /\ users' = Merge(users, cOp[c].uid,
                    [stripeCustomerId |-> Str(cLocal[c]), updatedAt |-> Num(ClockRead)])
  /\ Goto(c, "sessions.create")
  /\ UNCHANGED <<customers, markers, cLocal>>
  /\ UNCHANGED <<delivVars, billing>>

\* The parameters of stripe.checkout.sessions.create: no client_reference_id,
\* metadata: { tier, uid }.
CheckoutSession(op) ==
  [mode |-> "subscription", client_reference_id |-> "",
   metadata |-> [tier |-> op.tier, uid |-> op.uid]]

\* await stripe.checkout.sessions.create(...); res.redirect(303) or res.status(200).
\* The processor creates a session only for a price it holds.
\* Where the processor's books follow the checkout session, they hold the one
\* created last.
CheckoutSessionsCreate(c) ==
  /\ cpc[c] = "sessions.create" /\ cOp[c].op = "checkout"
  /\ PRICE_MAP(cOp[c].tier) \in PriceIds
  /\ \E status \in {"303", "200"} : Return(c, status)
  /\ billing' = IF "session" \in DOMAIN billing
                 THEN [billing EXCEPT !.session = CheckoutSession(cOp[c])]
                 ELSE billing
  /\ UNCHANGED <<users, customers, markers, now>>
  /\ UNCHANGED delivVars

\* An awaited call rejects: catch (e) logs and the handler ends without a
\* response.
CheckoutFail(c) ==
  /\ cpc[c] \in {"get", "customers.create", "set", "sessions.create"}
  /\ cOp[c].op = "checkout"
  /\ Return(c, "no response")
  /\ UNCHANGED <<users, customers, markers, now>>
  /\ UNCHANGED <<delivVars, billing>>

CheckoutStep(c) ==
  \/ CheckoutGet(c)
  \/ CheckoutSet(c)
  \/ CheckoutSessionsCreate(c)
  \/ CheckoutFail(c)

\* ------------------------------------------------------- pages/api/portal.ts
\* POST /api/portal { uid }
PortalOps == [op : {"portal"}, uid : Callers \cup {""}]

Portal(c) ==
  /\ \E op \in PortalOps : Call(c, op, "get") /\ op.uid # ""
  /\ UNCHANGED <<users, customers, markers, now>>
  /\ UNCHANGED <<delivVars, billing>>

\* if (!uid) return res.status(400).json({ error: "Missing uid" })
PortalRejected(c) ==
  /\ \E op \in PortalOps : op.uid = "" /\ Answer(c, op, "400")
  /\ UNCHANGED <<users, customers, markers, now>>
  /\ UNCHANGED <<delivVars, billing>>

PortalGet(c) ==
  /\ cpc[c] = "get" /\ cOp[c].op = "portal"
  /\ GetCustomer(c, "sessions.create")

\* await userRef.set({ stripeCustomerId: customerId, updatedAt: new Date().toISOString() }, { merge: true })
PortalSet(c) ==
  /\ cpc[c] = "set" /\ cOp[c].op = "portal"
  /\ now' = ClockRead
  /\ users' = Merge(users, cOp[c].uid,
                    [stripeCustomerId |-> Str(cLocal[c]),
                     updatedAt |-> IsoString(ClockRead, 0)])
  /\ Goto(c, "sessions.create")
  /\ UNCHANGED <<customers, markers, cLocal>>
  /\ UNCHANGED <<delivVars, billing>>

\* await stripe.billingPortal.sessions.create(...); res.status(200)
PortalSessionsCreate(c) ==
  /\ cpc[c] = "sessions.create" /\ cOp[c].op = "portal"
  /\ Return(c, "200")
  /\ UNCHANGED <<users, customers, markers, now>>
  /\ UNCHANGED <<delivVars, billing>>

\* catch (e) -> res.status(500)
PortalFail(c) ==
  /\ cpc[c] \in {"get", "customers.create", "set", "sessions.create"}
  /\ cOp[c].op = "portal"
  /\ Return(c, "500")
  /\ UNCHANGED <<users, customers, markers, now>>
  /\ UNCHANGED <<delivVars, billing>>

PortalStep(c) ==
  \/ PortalGet(c)
  \/ PortalSet(c)
  \/ PortalSessionsCreate(c)
  \/ PortalFail(c)

\* ------------------------------------------ lib/createStripeCustomerForUser.ts
\* FieldValue.serverTimestamp() resolved by the server at the write
ServerTimestamp(t) == <<"timestamp", t>>

CreateStripeCustomerOps ==
  [op : {"createStripeCustomerForUser"}, uid : Callers, email : {"", "u@example.com"}]

CreateStripeCustomerForUser(c) ==
  /\ \E op \in CreateStripeCustomerOps : Call(c, op, "get")
  /\ UNCHANGED <<users, customers, markers, now>>
  /\ UNCHANGED <<delivVars, billing>>

\* if (snap.exists && snap.data()?.stripeCustomerId) return it
CreateStripeCustomerGet(c) ==
  /\ cpc[c] = "get" /\ cOp[c].op = "createStripeCustomerForUser"
  /\ IF StoredCustomerId(cOp[c].uid) # ""
     THEN Return(c, StoredCustomerId(cOp[c].uid))
     ELSE Goto(c, "customers.create") /\ UNCHANGED cLocal
  /\ UNCHANGED <<users, customers, markers, now>>
  /\ UNCHANGED <<delivVars, billing>>

\* await userRef.set({ stripeCustomerId, email: email || null, createdAt }, { merge: true })
CreateStripeCustomerSet(c) ==
  /\ cpc[c] = "set" /\ cOp[c].op = "createStripeCustomerForUser"
  /\ now' = ClockRead
  /\ users' = Merge(users, cOp[c].uid,
                    [stripeCustomerId |-> Str(cLocal[c]),
                     email |-> OrNull(cOp[c].email),
                     createdAt |-> ServerTimestamp(ClockRead)])
  /\ Return(c, cLocal[c])
  /\ UNCHANGED <<customers, markers>>
  /\ UNCHANGED <<delivVars, billing>>

\* An awaited call rejects and so does createStripeCustomerForUser.
CreateStripeCustomerFail(c) ==
  /\ cpc[c] \in {"get", "customers.create", "set"}
  /\ cOp[c].op = "createStripeCustomerForUser"
  /\ Return(c, "rejected")
  /\ UNCHANGED <<users, customers, markers, now>>
  /\ UNCHANGED <<delivVars, billing>>

CreateStripeCustomerStep(c) ==
  \/ CreateStripeCustomerGet(c)
  \/ CreateStripeCustomerSet(c)
  \/ CreateStripeCustomerFail(c)

\* -------------------------------------------- pages/api/subscription/refund.ts
\* The versions of the handler: pages/api/subscription/refund.ts, the one
\* that asks for the most recent paid invoice first, and the two that ask
\* for the most recent invoice only.
RefundVariants == {"refund.ts", "part_008", "part_007", "part_007 (2)"}

\* What the processor can hold on a customer: no invoice charge and no
\* charge; a charge that belongs to no invoice; an invoice whose charge is
\* the most recent one; an invoice charge and a more recent charge.
Billing ==
  {[invoice |-> "", latest |-> ""],
   [invoice |-> "", latest |-> "ch_new"],
   [invoice |-> "ch_inv", latest |-> "ch_inv"],
   [invoice |-> "ch_inv", latest |-> "ch_new"]}

\* billingClient.ts: body: JSON.stringify({ uid, ...(amountCents ? { amount:
\* amountCents } : {}) }): the amount of the body refundLastCharge posts.
refundLastCharge(amountCents) ==
  IF amountCents \notin {Undefined, Num(0)} THEN amountCents ELSE Undefined

\* POST /api/subscription/refund { uid, amount?, chargeId? }: asked is the
\* amount the caller wants refunded (Undefined for none), amount the one in
\* the body, posted as it is or built by refundLastCharge, which names no
\* charge; chargeId "" stands for an omitted one.
RefundOps ==
  {[op |-> "refund", variant |-> v, uid |-> u, asked |-> a, amount |-> a, chargeId |-> ch] :
     v \in RefundVariants, u \in Callers \cup {""},
     a \in {Undefined} \cup {Num(n) : n \in 0..MaxAmount}, ch \in {"", "ch_1"}}
  \cup
  {[op |-> "refund", variant |-> v, uid |-> u, asked |-> a,
    amount |-> refundLastCharge(a), chargeId |-> ""] :
     v \in RefundVariants, u \in Callers \cup {""},
     a \in {Undefined} \cup {Num(n) : n \in 0..MaxAmount}}

\* The amount parameter of stripe.refunds.create, Undefined when the key is
\* left out: typeof amount === "number" ? { amount } : {} (refund.ts,
\* part_008), the same after Math.max(0, Math.floor(amount)) (part_007), or
\* amount ? { amount } : {} (the second handler of part_007).
RefundAmountSent(op) ==
  IF op.variant = "part_007 (2)" /\ op.amount = Num(0) THEN Undefined ELSE op.amount

Refund(c) ==
  /\ \E op \in RefundOps : Call(c, op, "get") /\ op.uid # ""
  /\ UNCHANGED <<users, customers, markers, now>>
  /\ UNCHANGED <<delivVars, billing>>

\* if (!uid) return res.status(400).json({ error: "Missing uid" })
RefundRejected(c) ==
  /\ \E op \in RefundOps : op.uid = "" /\ Answer(c, op, "400")
  /\ UNCHANGED <<users, customers, markers, now>>
  /\ UNCHANGED <<delivVars, billing>>

\* const userSnap = await ...get(); if (!user?.stripeCustomerId) return 400;
\* let chargeToRefund = chargeId; if (!chargeToRefund) the version's first
\* list call follows.
RefundGet(c) ==
  /\ cpc[c] = "get" /\ cOp[c].op = "refund"
  /\ IF StoredCustomerId(cOp[c].uid) = ""
     THEN Return(c, "400")
     ELSE IF cOp[c].chargeId # ""
     THEN /\ Goto(c, "refunds.create")
          /\ cLocal' = [cLocal EXCEPT ![c] = cOp[c].chargeId]
     ELSE /\ Goto(c, IF cOp[c].variant = "refund.ts" THEN "charges.list" ELSE "invoices.list")
          /\ UNCHANGED cLocal
  /\ UNCHANGED <<users, customers, markers, now>>
  /\ UNCHANGED <<delivVars, billing>>

\* const invoices = await stripe.invoices.list({ customer, limit: 1 }): the
\* invoice's charge is the one to refund; without one part_007 answers 400
\* and part_008 goes on to its final fallback.
RefundInvoicesList(c) ==
  /\ cpc[c] = "invoices.list" /\ cOp[c].op = "refund"
  /\ IF billing.invoice # ""
     THEN /\ Goto(c, "refunds.create")
          /\ cLocal' = [cLocal EXCEPT ![c] = billing.invoice]
     ELSE IF cOp[c].variant \in {"part_007", "part_007 (2)"}
     THEN Return(c, "400")
     ELSE Goto(c, "charges.list") /\ UNCHANGED cLocal
  /\ UNCHANGED <<users, customers, markers, now>>
  /\ UNCHANGED <<delivVars, billing>>

\* A fallback that hands charges.data[0]?.id to the refund unchecked.
RefundChargesListUnchecked(c) ==
  /\ cpc[c] = "charges.list" /\ cOp[c].op = "refund"
  /\ Goto(c, "refunds.create")
  /\ cLocal' = [cLocal EXCEPT ![c] = billing.latest]
  /\ UNCHANGED <<users, customers, markers, now>>
  /\ UNCHANGED <<delivVars, billing>>

\* const charges = await stripe.charges.list({ customer, limit: 1 });
\* chargeToRefund = charges.data[0]?.id; if (!chargeToRefund) return 400
RefundChargesList(c) ==
  /\ cpc[c] = "charges.list" /\ cOp[c].op = "refund"
  /\ IF billing.latest # ""
     THEN /\ Goto(c, "refunds.create")
          /\ cLocal' = [cLocal EXCEPT ![c] = billing.latest]
     ELSE Return(c, "400")
  /\ UNCHANGED <<users, customers, markers, now>>
  /\ UNCHANGED <<delivVars, billing>>

\* const refund = await stripe.refunds.create({ charge, amount? }):
\* refund.amount is the amount sent, or what is left of the charge; the
\* processor rejects an amount that is not positive.
RefundsCreate(c) ==
  /\ cpc[c] = "refunds.create" /\ cOp[c].op = "refund"
  /\ RefundAmountSent(cOp[c]) # Num(0)
  /\ \E amount \in 1..MaxAmount :
       /\ RefundAmountSent(cOp[c]) # Undefined => Num(amount) = RefundAmountSent(cOp[c])
       /\ cLocal' = [cLocal EXCEPT ![c] = amount]
  /\ Goto(c, "set")
  /\ UNCHANGED <<users, customers, markers, now>>
  /\ UNCHANGED <<delivVars, billing>>

\* Persist a small audit trail (part_007 stamps updatedAt, the others
\* lastRefundAt); res.status(200)
RefundSet(c) ==
  /\ cpc[c] = "set" /\ cOp[c].op = "refund"
  /\ now' = ClockRead
  /\ users' = Merge(users, cOp[c].uid,
                    IF cOp[c].variant \in {"part_007", "part_007 (2)"}
                    THEN [lastRefundId |-> Str("re_" \o ToString(c)),
                          lastRefundAmount |-> Num(cLocal[c]),
                          updatedAt |-> ServerTimestamp(ClockRead)]
                    ELSE [lastRefundId |-> Str("re_" \o ToString(c)),
                          lastRefundAmount |-> Num(cLocal[c]),
                          lastRefundAt |-> ServerTimestamp(ClockRead)])
  /\ Return(c, "200")
  /\ UNCHANGED <<customers, markers>>
  /\ UNCHANGED <<delivVars, billing>>

\* catch (err) -> res.status(500)
RefundFail(c) ==
  /\ cpc[c] \in {"get", "invoices.list", "charges.list", "refunds.create", "set"}
  /\ cOp[c].op = "refund"
  /\ Return(c, "500")
  /\ UNCHANGED <<users, customers, markers, now>>
  /\ UNCHANGED <<delivVars, billing>>

RefundStep(c) ==
  \/ RefundGet(c)
  \/ RefundInvoicesList(c)
  \/ RefundChargesList(c)
  \/ RefundsCreate(c)
  \/ RefundSet(c)
  \/ RefundFail(c)

\* ------------------------------------------------ pages/api/stripe-webhook.ts
\* dateFields(d): the UTC day, month and year of the instant t
DayOf(t) == <<"day", t>>
MonthOf(t) == <<"month", t>>
YearOf(t) == <<"year", t>>

\* A request to /api/stripe-webhook: whether its signature verifies, the
\* event type, the uid the object names (client_reference_id / metadata.uid,
\* "" when none), metadata.tierKey, session.mode, current_period_end (0 when
\* not a number).
StripeWebhookOps ==
  {[op |-> "stripe-webhook", verified |-> TRUE, type |-> "checkout.session.completed",
    uid |-> u, tierKey |-> k, mode |-> m, end |-> 0] :
     u \in Callers \cup {""}, k \in {"", "DEMANDX"}, m \in {"subscription", "payment"}}
  \cup {[op |-> "stripe-webhook", verified |-> TRUE, type |-> t,
         uid |-> u, tierKey |-> k, mode |-> "", end |-> e] :
     t \in SubscriptionEventTypes, u \in Callers \cup {""}, k \in {"", "DEMANDX"}, e \in {0, 1}}
  \cup {[op |-> "stripe-webhook", verified |-> v, type |-> "customer.subscription.deleted",
         uid |-> u, tierKey |-> "", mode |-> "", end |-> 0] :
     u \in Callers \cup {""}, v \in BOOLEAN}
  \cup {[op |-> "stripe-webhook", verified |-> TRUE, type |-> "customer.created",
         uid |-> "", tierKey |-> "", mode |-> "", end |-> 0]}

\* Whether the handler has a branch for the event that finds a uid.
StripeWebhookHandles(op) ==
  /\ op.verified
  /\ op.uid # ""
  /\ op.type # "customer.created"

\* The fields the branch of op.type merge-writes to users/uid at time t.
StripeWebhookPatch(op, t) ==
  CASE op.type = "checkout.session.completed" ->
         [subscriptionType |-> Str(IF op.tierKey # "" THEN op.tierKey ELSE "ADOB_SENSE"),
          status |-> Str("ACTIVE"),
          stripeId |-> Str("cus_1"),
          updatedAt |-> ServerTimestamp(t),
          day |-> DayOf(t), month |-> MonthOf(t), year |-> YearOf(t)]
    [] op.type \in SubscriptionEventTypes ->
         [subscriptionType |-> Str(IF op.tierKey # "" THEN op.tierKey ELSE "ADOB_SENSE"),
          status |-> Str("ACTIVE"),
          subscriptionEndDate |->
            IF op.end # 0 THEN ServerTimestamp(op.end * MsPerSecond) ELSE Null,
          subEndIso |-> IF op.end # 0 THEN IsoString(op.end * MsPerSecond, 0) ELSE Null,
          subEndDay |-> IF op.end # 0 THEN DayOf(op.end * MsPerSecond) ELSE Null,
          subEndMonth |-> IF op.end # 0 THEN MonthOf(op.end * MsPerSecond) ELSE Null,
          subEndYear |-> IF op.end # 0 THEN YearOf(op.end * MsPerSecond) ELSE Null,
          stripeId |-> Str("cus_1"),
          updatedAt |-> ServerTimestamp(t)]
    [] OTHER ->
         [subscriptionType |-> Str("DIGITAL+XIIBIITKEY"),
          status |-> Str("ACTIVE"),
          updatedAt |-> ServerTimestamp(t),
          day |-> DayOf(t), month |-> MonthOf(t), year |-> YearOf(t),
          iso |-> IsoString(t, 0)]

\* A request the handler has a branch for arrives.
StripeWebhook(c) ==
  /\ \E op \in StripeWebhookOps :
       /\ StripeWebhookHandles(op)
       /\ Call(c, op, IF op.type = "checkout.session.completed" THEN "visits.add" ELSE "set")
  /\ UNCHANGED <<users, customers, markers, now>>
  /\ UNCHANGED <<delivVars, billing>>

\* constructEvent throws: 400; no uid or no branch: res.json({ received: true })
StripeWebhookAnswered(c) ==
  /\ \E op \in StripeWebhookOps :
       /\ ~StripeWebhookHandles(op)
       /\ Answer(c, op, IF op.verified THEN "200" ELSE "400")
  /\ UNCHANGED <<users, customers, markers, now>>
  /\ UNCHANGED <<delivVars, billing>>

\* await ...collection("visits").add(...); then by session.mode the user
\* record is written, or the library batch is committed.
StripeWebhookVisitsAdd(c) ==
  /\ cpc[c] = "visits.add" /\ cOp[c].op = "stripe-webhook"
  /\ Goto(c, IF cOp[c].mode = "subscription" THEN "set" ELSE "batch.commit")
  /\ UNCHANGED <<users, customers, markers, now, cLocal>>
  /\ UNCHANGED <<delivVars, billing>>

\* await batch.commit(): library and playlist documents; res.json
StripeWebhookBatchCommit(c) ==
  /\ cpc[c] = "batch.commit" /\ cOp[c].op = "stripe-webhook"
  /\ Return(c, "200")
  /\ UNCHANGED <<users, customers, markers, now>>
  /\ UNCHANGED <<delivVars, billing>>

\* await adminDb.collection("users").doc(uid).set({...}, { merge: true }); res.json
StripeWebhookSet(c) ==
  /\ cpc[c] = "set" /\ cOp[c].op = "stripe-webhook"
  /\ now' = ClockRead
  /\ users' = Merge(users, cOp[c].uid, StripeWebhookPatch(cOp[c], ClockRead))
  /\ Return(c, "200")
  /\ UNCHANGED <<customers, markers>>
  /\ UNCHANGED <<delivVars, billing>>

\* catch (err) -> res.status(500)
StripeWebhookFail(c) ==
  /\ cpc[c] \in {"visits.add", "batch.commit", "set"}
  /\ cOp[c].op = "stripe-webhook"
  /\ Return(c, "500")
  /\ UNCHANGED <<users, customers, markers, now>>
  /\ UNCHANGED <<delivVars, billing>>

StripeWebhookStep(c) ==
  \/ StripeWebhookVisitsAdd(c)
  \/ StripeWebhookBatchCommit(c)
  \/ StripeWebhookSet(c)
  \/ StripeWebhookFail(c)

\* Stripe delivers an event at least once: the event request c1 is handling
\* arrives a second time, as request c, with the same id and payload.
StripeWebhookRedelivered(c) ==
  /\ \E c1 \in Calls :
       /\ c1 < c
       /\ cpc[c1] \notin {"idle", "done"}
       /\ cOp[c1].op = "stripe-webhook"
       /\ Call(c, cOp[c1],
               IF cOp[c1].type = "checkout.session.completed" THEN "visits.add" ELSE "set")
  /\ UNCHANGED <<users, customers, markers, now>>
  /\ UNCHANGED <<delivVars, billing>>

\* The customer pays: the processor sends checkout.session.completed with the
\* session. The handler reads uid from client_reference_id or metadata.uid,
\* and the tier from metadata.tierKey.
StripeWebhookSessionCompleted(c) ==
  /\ "session" \in DOMAIN billing
  /\ billing.session # Nil
  /\ LET session == billing.session
         meta(key) == IF key \in DOMAIN session.metadata THEN session.metadata[key] ELSE ""
         uid == IF session.client_reference_id # ""
                THEN session.client_reference_id ELSE meta("uid")
     IN /\ uid # ""
        /\ Call(c, [op |-> "stripe-webhook", verified |-> TRUE,
                    type |-> "checkout.session.completed", uid |-> uid,
                    tierKey |-> meta("tierKey"), mode |-> session.mode, end |-> 0],
                "visits.add")
  /\ UNCHANGED <<users, customers, markers, now>>
  /\ UNCHANGED <<delivVars, billing>>

\* ----------------------------------------------- the price and tier tables
\* process.env at module load: each of the three price variables holds a
\* price id, or is unset ("undefined" once used as a key).
EnvNames == {"ADOBSENSE", "DOBEONE", "DEMANDX"}

\* The table with every key bound to the tier of the variable before it.
PriceToTierFromShifted(env) ==
  [k \in {env[n] : n \in EnvNames} |->
     IF k = env["DEMANDX"] THEN "DOBE_ONE"
     ELSE IF k = env["DOBEONE"] THEN "ADOB_SENSE" ELSE "DEMANDX"]

\* checkout.ts: const PRICE_MAP = { ADOB_SENSE: env..., DOBE_ONE: ..., DEMANDX: ... }
PriceMapFrom(env) ==
  [t \in Tiers |->
     CASE t = "ADOB_SENSE" -> env["ADOBSENSE"]
       [] t = "DOBE_ONE" -> env["DOBEONE"]
       [] t = "DEMANDX" -> env["DEMANDX"]]

\* webhook.ts: const PRICE_TO_TIER = { [env...]: "ADOB_SENSE", [..]: "DOBE_ONE",
\* [..]: "DEMANDX" }: of two equal computed keys the later one stays.
PriceToTierFrom(env) ==
  [k \in {env[n] : n \in EnvNames} |->
     IF k = env["DEMANDX"] THEN "DEMANDX"
     ELSE IF k = env["DOBEONE"] THEN "DOBE_ONE" ELSE "ADOB_SENSE"]

\* Both modules load under one environment; a tier is looked up.
LoadTables(c) ==
  /\ \E env \in [EnvNames -> PriceIds \cup {"undefined"}] : \E t \in Tiers :
       Call(c, [op |-> "tables", uid |-> "", env |-> env, tier |-> t], "PRICE_MAP")
  /\ UNCHANGED <<users, customers, markers, now>>
  /\ UNCHANGED <<delivVars, billing>>

\* const price = PRICE_MAP[tier]
LookupPrice(c) ==
  /\ cpc[c] = "PRICE_MAP" /\ cOp[c].op = "tables"
  /\ cLocal' = [cLocal EXCEPT ![c] = PriceMapFrom(cOp[c].env)[cOp[c].tier]]
  /\ Goto(c, "PRICE_TO_TIER")
  /\ UNCHANGED <<users, customers, markers, now>>
  /\ UNCHANGED <<delivVars, billing>>

\* tier = PRICE_TO_TIER[priceId]
LookupTier(c) ==
  /\ cpc[c] = "PRICE_TO_TIER" /\ cOp[c].op = "tables"
  /\ cpc' = [cpc EXCEPT ![c] = "done"]
  /\ cRes' = [cRes EXCEPT ![c] = PriceToTierFrom(cOp[c].env)[cLocal[c]]]
  /\ UNCHANGED <<cOp, cLocal>>
  /\ UNCHANGED <<users, customers, markers, now>>
  /\ UNCHANGED <<delivVars, billing>>

\* How customer cus_1 stands when the run starts: created for u1 and stored
\* on u1's record; created for u1 (metadata.uid) but stored on no record, u1
\* having none yet; or a customer of no user of this application.
InitialLinks ==
  {[users |-> ("u1" :> [stripeCustomerId |-> Str("cus_1")]), uid |-> "u1"],
   [users |-> <<>>, uid |-> "u1"],
   [users |-> ("u1" :> [email |-> Str("u1@example.com")]), uid |-> ""]}

\* u2 signed in and holds a customer of its own, which no event is about.
Bystander == ("u2" :> [stripeCustomerId |-> Str("cus_2")])

\* No event marker yet, the clock at 0, no delivery and no call started.
InitIdle ==
  /\ markers = <<>>
  /\ now = 0
  /\ pc = [d \in Deliveries |-> "idle"]
  /\ dEv = [d \in Deliveries |-> Nil]
  /\ dSig = [d \in Deliveries |-> FALSE]
  /\ dObj = [d \in Deliveries |-> Nil]
  /\ dRef = [d \in Deliveries |-> ""]
  /\ resp = [d \in Deliveries |-> ""]
  /\ mw = [d \in Deliveries |-> 0]
  /\ uw = [d \in Deliveries |-> 0]
  /\ dPrior = [d \in Deliveries |-> FALSE]
  /\ cpc = [c \in Calls |-> "idle"]
  /\ cOp = [c \in Calls |-> Nil]
  /\ cLocal = [c \in Calls |-> Nil]
  /\ cRes = [c \in Calls |-> ""]

\* The state before the first request, but for the processor's books.
InitRecords ==
  /\ \E link \in InitialLinks :
       /\ users = link.users @@ Bystander
       /\ customers = ("cus_1" :> link.uid) @@ ("cus_2" :> "u2")
  /\ InitIdle

\* The customer has been invoiced and has since paid a charge of its own.
Init == InitRecords /\ billing = [invoice |-> "ch_inv", latest |-> "ch_new"]

DeliveryStep(d) ==
  \/ AlreadyProcessedGet(d)
  \/ AlreadyProcessedSet(d)
  \/ Retrieve(d)
  \/ Resolve(d)
  \/ Write(d)
  \/ Fail(d)

\* The webhook receiver alone, one delivery after the other.
Next == \E d \in Deliveries : Receive(d) \/ DeliveryStep(d)

Spec == Init /\ [][Next]_vars

\* The webhook receiver alone, deliveries overlapping.
NextConcurrent == \E d \in Deliveries : ReceiveConcurrent(d) \/ DeliveryStep(d)

SpecConcurrent == Init /\ [][NextConcurrent]_vars

\* The free-trial activation alone, calls overlapping.
NextTrial == \E c \in Calls : StartFreeTrial(c) \/ StartFreeTrialStep(c)

SpecTrial == Init /\ [][NextTrial]_vars

\* Every writer of the user record, one request after the other, the
\* processor holding these subscription and charge states and sending, any
\* number of times, one event.
StripeAll ==
  [subs |-> {sub \in Subscriptions : /\ sub.status = "active"
                                     /\ sub.current_period_end = 1
                                     /\ sub.price \in {"price_dobeone", "price_other"}},
   charges |-> {ch \in RefundedCharges : /\ ch.customer = "cus_1"
                                         /\ ch.refund = ch.amount_refunded
                                         /\ ch.refund \in {1, ch.amount}}]

PayloadsAll == PayloadsOver(StripeAll.subs, StripeAll.charges)

\* No request is being served and fewer than MaxOps have been.
Quiet ==
  /\ \A d \in Deliveries : pc[d] \in {"idle", "done"}
  /\ \A c \in Calls : cpc[c] \in {"idle", "done"}
  /\ Cardinality({d \in Deliveries : pc[d] = "done"})
       + Cardinality({c \in Calls : cpc[c] = "done"}) < MaxOps

\* Call c may start: it has not, and no request is being served.
MayCall(c) == cpc[c] = "idle" /\ Quiet

ReceiveAll(d) ==
  /\ pc[d] = "idle"
  /\ Quiet
  /\ \A d2 \in Deliveries : d2 < d => pc[d2] = "done"
  /\ Arrive(d, {"evt_1"}, PayloadsAll)

RetrieveAll(d) == RetrieveFrom(d, StripeAll)

\* A request arrives while no other is being served.
NextAll ==
  \/ \E d \in Deliveries :
       \/ ReceiveAll(d)
       \/ AlreadyProcessedGet(d)
       \/ AlreadyProcessedSet(d)
       \/ RetrieveAll(d)
       \/ Resolve(d)
       \/ Write(d)
       \/ Fail(d)
  \/ \E c \in Calls :
       \/ MayCall(c) /\ StartFreeTrial(c)
       \/ MayCall(c) /\ Checkout(c)
       \/ MayCall(c) /\ CheckoutRejected(c)
       \/ MayCall(c) /\ Portal(c)
       \/ MayCall(c) /\ PortalRejected(c)
       \/ MayCall(c) /\ CreateStripeCustomerForUser(c)
       \/ MayCall(c) /\ Refund(c)
       \/ MayCall(c) /\ RefundRejected(c)
       \/ MayCall(c) /\ StripeWebhook(c)
       \/ MayCall(c) /\ StripeWebhookAnswered(c)
       \/ StartFreeTrialStep(c)
       \/ CustomersCreate(c)
       \/ CheckoutStep(c)
       \/ PortalStep(c)
       \/ CreateStripeCustomerStep(c)
       \/ RefundStep(c)
       \/ StripeWebhookStep(c)

SpecAll == Init /\ [][NextAll]_vars

\* The refund endpoint alone, in each of its versions, one request after
\* the other, whatever the processor holds on the customer.
InitRefund == InitRecords /\ billing \in Billing

\* Every call before c is over.
Sequential(c) == \A c2 \in Calls : c2 < c => cpc[c2] = "done"

NextRefund ==
  \E c \in Calls :
    \/ Sequential(c) /\ Refund(c)
    \/ Sequential(c) /\ RefundRejected(c)
    \/ RefundStep(c)

SpecRefund == InitRefund /\ [][NextRefund]_vars

\* The endpoints that make a customer for the user (checkout, portal,
\* createStripeCustomerForUser), requests overlapping.
NextCustomers ==
  \E c \in Calls :
    \/ Checkout(c)
    \/ Portal(c)
    \/ CreateStripeCustomerForUser(c)
    \/ CustomersCreate(c)
    \/ CheckoutStep(c)
    \/ PortalStep(c)
    \/ CreateStripeCustomerStep(c)

SpecCustomers == Init /\ [][NextCustomers]_vars

\* ------------- setUserSubscription and setUserToFree as functions of their own
\* The argument sets: currentPeriodEnd 0 is null, stripeCustomerId "" and
\* subscriptionId "" are omitted (undefined).
WriterOps ==
  [op : {"setUserSubscription"}, uid : Callers, tier : Tiers,
   currentPeriodEnd : 0..MaxPeriodEnd, status : Statuses,
   stripeCustomerId : {"", "cus_1"}, subscriptionId : {"", "sub_1"}]
  \cup [op : {"setUserToFree"}, uid : Callers,
         reason : {"subscription.deleted", "refund"}]

\* The fields the function merge-writes to userRef at time t.
WriterPatch(op, t) ==
  IF op.op = "setUserSubscription"
  THEN setUserSubscription(op.tier, op.currentPeriodEnd, op.status,
                           op.stripeCustomerId, op.subscriptionId, t)
  ELSE setUserToFree(op.reason, t)

\* The function is called, no other call running.
CallWriter(c) ==
  /\ \A c2 \in Calls : c2 < c => cpc[c2] = "done"
  /\ \E op \in WriterOps : Call(c, op, "set")
  /\ UNCHANGED <<users, customers, markers, now>>
  /\ UNCHANGED <<delivVars, billing>>

\* await userRef.set({...}, { merge: true }); the caller keeps the record as
\* it now is.
WriterSet(c) ==
  /\ cpc[c] = "set" /\ cOp[c].op \in {"setUserSubscription", "setUserToFree"}
  /\ now' = ClockRead
  /\ users' = Merge(users, cOp[c].uid, WriterPatch(cOp[c], ClockRead))
  /\ cLocal' = [cLocal EXCEPT ![c] = users'[cOp[c].uid]]
  /\ Goto(c, "set.again")
  /\ UNCHANGED <<customers, markers>>
  /\ UNCHANGED <<delivVars, billing>>

\* The function is called once more with the same arguments.
WriterSetAgain(c) ==
  /\ cpc[c] = "set.again"
  /\ now' = ClockRead
  /\ users' = Merge(users, cOp[c].uid, WriterPatch(cOp[c], ClockRead))
  /\ Return(c, "returned")
  /\ UNCHANGED <<customers, markers>>
  /\ UNCHANGED <<delivVars, billing>>

\* The caller's record before the first call: none; one with a customer id
\* only; one of a user on the free trial; one of a subscriber with a
\* scheduled cancellation and a refund on record.
InitWriter ==
  /\ \E doc \in {<<>>,
                 [stripeCustomerId |-> Str("cus_1")],
                 [subscriptionType |-> Str("FREETRIAL"), status |-> Str("ACTIVE"),
                  subEndIso |-> IsoString(0, TrialDays), trialUsed |-> Bool(TRUE),
                  updatedAt |-> IsoString(0, 0)],
                 [stripeCustomerId |-> Str("cus_1"), stripeSubscriptionId |-> Str("sub_1"),
                  subscriptionType |-> Str("DEMANDX"), subscriptionStatus |-> Str("active"),
                  subscriptionEndDate |-> DateOf(MsPerSecond),
                  subscriptionCancelAt |-> Num(1), trialUsed |-> Bool(TRUE),
                  lastRefundId |-> Str("re_1"), lastRefundAmount |-> Num(1),
                  lastRefundAt |-> ServerTimestamp(0), updatedAt |-> Num(0)]} :
       users = (IF doc = <<>> THEN <<>> ELSE ("u1" :> doc)) @@ Bystander
  /\ customers = ("cus_1" :> "u1") @@ ("cus_2" :> "u2")
  /\ billing = [invoice |-> "", latest |-> ""]
  /\ InitIdle

NextWriter == \E c \in Calls : CallWriter(c) \/ WriterSet(c) \/ WriterSetAgain(c)

SpecWriter == InitWriter /\ [][NextWriter]_vars

\* The second receiver alone: one event, delivered once and then again, the
\* deliveries served one after the other.
NextRedelivery ==
  \E c \in Calls :
    \/ c = 1 /\ StripeWebhook(c)
    \/ StripeWebhookRedelivered(c)
    \/ Sequential(c) /\ StripeWebhookVisitsAdd(c)
    \/ Sequential(c) /\ StripeWebhookBatchCommit(c)
    \/ Sequential(c) /\ StripeWebhookSet(c)
    \/ Sequential(c) /\ StripeWebhookFail(c)

SpecRedelivery == Init /\ [][NextRedelivery]_vars

\* A checkout and the completion of its session, received by
\* stripe-webhook.ts; the processor's books follow the session.
InitCompleted ==
  /\ InitRecords
  /\ billing = [invoice |-> "ch_inv", latest |-> "ch_new", session |-> Nil]

NextCompleted ==
  \E c \in Calls :
    \/ Sequential(c) /\ Checkout(c)
    \/ CustomersCreate(c)
    \/ CheckoutStep(c)
    \/ Sequential(c) /\ StripeWebhookSessionCompleted(c)
    \/ StripeWebhookVisitsAdd(c)
    \/ StripeWebhookSet(c)
    \/ StripeWebhookFail(c)

SpecCompleted == InitCompleted /\ [][NextCompleted]_vars

\* The two tables, built from one environment and applied one after the other.
NextTables ==
  \E c \in Calls :
    \/ c = 1 /\ LoadTables(c)
    \/ LookupPrice(c)
    \/ LookupTier(c)

SpecTables == Init /\ [][NextTables]_vars

\* ==================================================== properties checked
\* A delivery answered with a 200 and a write to the user record.
Applied(d) == pc[d] = "done" /\ resp[d] = "200" /\ uw[d] = 1

\* C1: once a delivery of an event id has completed (answered 200), a later
\* delivery of the same id writes neither an event marker nor a user record,
\* and, its signature verifying and the marker read succeeding, it is answered
\* 200 duplicate.
C1_DuplicateDeliveryIsNoOp ==
  \A d \in Deliveries :
    dPrior[d] =>
      /\ mw[d] = 0
      /\ uw[d] = 0
      /\ (pc[d] = "done" /\ dSig[d] /\ resp[d] # "500") => resp[d] = "200 duplicate"

\* The first delivery of an event wrote the user record and the second
\* delivery of the same event was answered 200 duplicate.
C1_Witness ==
  \E d1, d2 \in Deliveries :
    /\ d1 < d2
    /\ Applied(d1)
    /\ dPrior[d2] /\ pc[d2] = "done" /\ resp[d2] = "200 duplicate"
    /\ dEv[d2].id = dEv[d1].id

\* C2: of the deliveries of one event id, overlapping or not, at most one
\* writes the user record.
C2_AtMostOnce ==
  \A i \in EventIds :
    Cardinality({d \in Deliveries : dEv[d] # Nil /\ dEv[d].id = i /\ uw[d] > 0}) <= 1

\* C4: of the startFreeTrial calls for one user, overlapping or not, at most
\* one returns; the others throw "Free trial already used."
C4_AtMostOneTrialSucceeds ==
  \A u \in Uids :
    Cardinality({c \in Calls : /\ cOp[c] # Nil
                               /\ cOp[c].op = "startFreeTrial"
                               /\ cOp[c].uid = u
                               /\ cRes[c] = "returned"}) <= 1

\* users/u holds trialUsed: true
TrialUsed(docs, u) == Field(StoredDoc(docs, u), "trialUsed") = Bool(TRUE)

\* C3: no step of any operation (startFreeTrial, either webhook receiver,
\* checkout, portal, customer creation, refund) takes a user's trialUsed from
\* true to anything else.
C3_TrialUsedNeverReset ==
  [][\A u \in Uids : TrialUsed(users, u) => TrialUsed(users', u)]_vars

\* A user who used the trial was then downgraded by a
\* customer.subscription.deleted event and still holds trialUsed.
C3_Witness ==
  /\ TrialUsed(users, "u1")
  /\ Field(users["u1"], "subscriptionType") = Str("HIPSESSION")
  /\ \E c \in Calls : cpc[c] = "done" /\ cOp[c].op = "startFreeTrial" /\ cRes[c] = "returned"
  /\ \E d \in Deliveries :
       Applied(d) /\ dRef[d] = "u1" /\ dEv[d].type = "customer.subscription.deleted"

SubscriptionStateTypes ==
  SubscriptionEventTypes \cup {"customer.subscription.deleted"}

\* C5: a customer.subscription.* event that arrives after a newer one (larger
\* event.created) has been applied to the same user does not overwrite the
\* stored end date.
C5_OlderEventDoesNotOverwrite ==
  [][\A d \in Deliveries :
       (/\ pc[d] = "write"
        /\ dEv[d].type \in SubscriptionStateTypes
        /\ \E d2 \in Deliveries :
             /\ Applied(d2)
             /\ dRef[d2] = dRef[d]
             /\ dEv[d2].type \in SubscriptionStateTypes
             /\ dEv[d2].created > dEv[d].created
        /\ resp'[d] = "200")
       => Field(users'[dRef[d]], "subscriptionEndDate")
            = Field(users[dRef[d]], "subscriptionEndDate")]_vars

\* C6: the write of a customer.subscription.deleted event leaves the user on
\* the free tier HIPSESSION with a null end date and the downgrade reason
\* recorded, whatever the record held before.
C6_DeletedDowngradesToFree ==
  [][\A d \in Deliveries :
       (/\ pc[d] = "write"
        /\ dEv[d].type = "customer.subscription.deleted"
        /\ resp'[d] = "200")
       => LET after == users'[dRef[d]]
          IN /\ Field(after, "subscriptionType") = Str("HIPSESSION")
             /\ Field(after, "subscriptionEndDate") = Null
             /\ Field(after, "lastDowngradeReason") = Str("subscription.deleted")]_vars

\* A subscribed user (subscription id stored by an earlier event) was
\* downgraded by a deleted event.
C6_Witness ==
  \E d1, d2 \in Deliveries :
    /\ d1 < d2
    /\ Applied(d1) /\ dEv[d1].type = "customer.subscription.updated"
    /\ Applied(d2) /\ dEv[d2].type = "customer.subscription.deleted"
    /\ dRef[d1] = dRef[d2]
    /\ Field(users[dRef[d2]], "stripeSubscriptionId") = Str("sub_1")
    /\ Field(users[dRef[d2]], "subscriptionType") = Str("HIPSESSION")
    /\ Field(users[dRef[d2]], "subscriptionEndDate") = Null

\* C7: the write of a checkout.session.completed event whose subscription's
\* price maps to a tier stores that tier, the subscription's current period
\* end as the end date and the subscription's status.
C7_CheckoutSetsTier ==
  [][\A d \in Deliveries :
       (/\ pc[d] = "write"
        /\ dEv[d].type = "checkout.session.completed"
        /\ dObj[d] # Nil
        /\ PRICE_TO_TIER(dObj[d].price) # ""
        /\ resp'[d] = "200")
       => LET after == users'[dRef[d]]
          IN /\ Field(after, "subscriptionType") = Str(PRICE_TO_TIER(dObj[d].price))
             /\ Field(after, "subscriptionEndDate")
                  = DateOf(dObj[d].current_period_end * 1000)
             /\ Field(after, "subscriptionStatus") = Str(dObj[d].status)]_vars

\* A checkout event was applied and the user holds a tier, the latest period
\* end and a subscription status.
C7_Witness ==
  \E d \in Deliveries :
    /\ Applied(d) /\ dEv[d].type = "checkout.session.completed"
    /\ Field(users[dRef[d]], "subscriptionType") = Str("DOBE_ONE")
    /\ Field(users[dRef[d]], "subscriptionEndDate") = DateOf(MaxPeriodEnd * 1000)
    /\ Field(users[dRef[d]], "subscriptionStatus") = Str("active")

\* C8: the write of an invoice.payment_failed event sets the status to
\* past_due and changes no other field of the record but updatedAt, and no
\* other record.
C8_PaymentFailedMarksPastDue ==
  [][\A d \in Deliveries :
       (/\ pc[d] = "write"
        /\ dEv[d].type = "invoice.payment_failed"
        /\ resp'[d] = "200")
       => LET before == StoredDoc(users, dRef[d])
              after == users'[dRef[d]]
          IN /\ Field(after, "subscriptionStatus") = Str("past_due")
             /\ \A f \in (DOMAIN before \cup DOMAIN after)
                           \ {"subscriptionStatus", "updatedAt"} :
                  Field(after, f) = Field(before, f)
             /\ \A u \in (DOMAIN users \cup DOMAIN users') \ {dRef[d]} :
                  u \in DOMAIN users /\ u \in DOMAIN users' /\ users'[u] = users[u]]_vars

\* A user put on a tier by an earlier event is past_due after a failed
\* payment and still on that tier with its end date.
C8_Witness ==
  \E d1, d2 \in Deliveries :
    /\ d1 < d2
    /\ Applied(d1) /\ dEv[d1].type = "customer.subscription.updated"
    /\ Applied(d2) /\ dEv[d2].type = "invoice.payment_failed"
    /\ dRef[d1] = dRef[d2]
    /\ Field(users[dRef[d2]], "subscriptionStatus") = Str("past_due")
    /\ Field(users[dRef[d2]], "subscriptionType") = Str("DEMANDX")
    /\ Field(users[dRef[d2]], "subscriptionEndDate") = DateOf(MaxPeriodEnd * 1000)

\* C9: the write of a refund event whose refund is of the full charge amount
\* sets the status to refunded and lastRefundAmount to the charge amount; the
\* write of one whose refund is partial leaves the status and sets
\* lastRefundAmount to the amount of that refund, also when the charge had
\* been partially refunded before.
C9_RefundAmounts ==
  [][\A d \in Deliveries :
       (/\ pc[d] = "write"
        /\ dEv[d].type \in RefundEventTypes
        /\ resp'[d] = "200")
       => LET before == StoredDoc(users, dRef[d])
              after == users'[dRef[d]]
              ch == dObj[d]
          IN IF ch.refund = ch.amount
             THEN /\ Field(after, "subscriptionStatus") = Str("refunded")
                  /\ Field(after, "lastRefundAmount") = Num(ch.amount)
             ELSE /\ Field(after, "subscriptionStatus") = Field(before, "subscriptionStatus")
                  /\ Field(after, "lastRefundAmount") = Num(ch.refund)]_vars

\* C10: a delivery whose signature does not verify is answered 400 and writes
\* neither a marker nor a user record; a marker exists, and a delivery is
\* answered 200 duplicate, only after a verified delivery of that event id
\* wrote the marker.
C10_SignatureFailure ==
  /\ \A d \in Deliveries :
       (pc[d] # "idle" /\ ~dSig[d]) =>
         pc[d] = "done" /\ resp[d] = "400" /\ mw[d] = 0 /\ uw[d] = 0
  /\ \A i \in EventIds :
       i \in DOMAIN markers =>
         \E d \in Deliveries : dSig[d] /\ dEv[d] # Nil /\ dEv[d].id = i /\ mw[d] = 1
  /\ \A d \in Deliveries :
       resp[d] = "200 duplicate" =>
         \E d2 \in Deliveries \ {d} :
           dSig[d2] /\ dEv[d2] # Nil /\ dEv[d2].id = dEv[d].id /\ mw[d2] = 1

\* A delivery failed verification with 400 and the next delivery of the same
\* event id, verified, was processed as the first: marker written, user
\* record written, 200.
C10_Witness ==
  \E d1, d2 \in Deliveries :
    /\ d1 < d2
    /\ pc[d1] = "done" /\ ~dSig[d1] /\ resp[d1] = "400"
    /\ dEv[d2] # Nil /\ dEv[d2].id = dEv[d1].id
    /\ dSig[d2] /\ Applied(d2) /\ mw[d2] = 1 /\ ~dPrior[d2]

\* C11: a delivery is answered once, when it ends, and the answer stays: 400
\* exactly when the signature did not verify; 500 when an awaited call
\* (marker read or write, retrieve, user lookup, user write) rejected; else
\* 200, as a duplicate exactly when the marker read found the marker.
C11_ResponseCodes ==
  [][\A d \in Deliveries :
       /\ resp[d] # "" => resp'[d] = resp[d] /\ pc'[d] = "done"
       /\ (pc'[d] = "done") <=> (resp'[d] # "")
       /\ (pc[d] # "done" /\ pc'[d] = "done") =>
            /\ resp'[d] \in {"400", "200", "200 duplicate", "500"}
            /\ (resp'[d] = "400") <=> ~dSig'[d]
            /\ Fail(d) => resp'[d] = "500"
            /\ (dSig'[d] /\ ~Fail(d)) => resp'[d] \in {"200", "200 duplicate"}
            /\ (resp'[d] = "200 duplicate")
                 <=> (/\ pc[d] = "alreadyProcessed.get"
                      /\ dEv[d].id \in DOMAIN markers
                      /\ ~Fail(d))]_vars

\* A delivery was answered 500 after it had written the marker and before it
\* wrote the user record, and the retry of the event was answered 200 as a
\* duplicate.
C11_Witness ==
  \E d1, d2 \in Deliveries :
    /\ d1 < d2
    /\ pc[d1] = "done" /\ dSig[d1] /\ resp[d1] = "500" /\ mw[d1] = 1 /\ uw[d1] = 0
    /\ pc[d2] = "done" /\ dSig[d2] /\ resp[d2] = "200 duplicate"
    /\ dEv[d2].id = dEv[d1].id

\* C12: the write of a customer.subscription.created / updated event whose
\* subscription is flagged cancel_at_period_end stores the cancellation time
\* (seconds), the status and the end date, and changes no other field but
\* updatedAt: subscriptionType stays what it was. Without the flag and with
\* a mapped price it stores the tier, the status and the period end.
C12_CancelAtPeriodEndKeepsTier ==
  [][\A d \in Deliveries :
       (/\ pc[d] = "write"
        /\ dEv[d].type \in SubscriptionEventTypes
        /\ resp'[d] = "200")
       => LET before == StoredDoc(users, dRef[d])
              after == users'[dRef[d]]
              sub == dObj[d]
          IN IF sub.cancel_at_period_end
             THEN /\ Field(after, "subscriptionCancelAt") = Num(sub.current_period_end)
                  /\ Field(after, "subscriptionStatus") = Str(sub.status)
                  /\ Field(after, "subscriptionEndDate")
                       = DateOf(sub.current_period_end * 1000)
                  /\ \A f \in (DOMAIN before \cup DOMAIN after)
                                \ {"subscriptionCancelAt", "subscriptionStatus",
                                   "subscriptionEndDate", "updatedAt"} :
                       Field(after, f) = Field(before, f)
             ELSE PRICE_TO_TIER(sub.price) # "" =>
                  /\ Field(after, "subscriptionType") = Str(PRICE_TO_TIER(sub.price))
                  /\ Field(after, "subscriptionStatus") = Str(sub.status)
                  /\ Field(after, "subscriptionEndDate")
                       = DateOf(sub.current_period_end * 1000)]_vars

\* A user put on DEMANDX by an earlier event had the cancellation scheduled
\* by an updated event and is still on DEMANDX.
C12_Witness ==
  \E d1, d2 \in Deliveries :
    /\ d1 < d2
    /\ Applied(d1) /\ dEv[d1].type = "customer.subscription.created"
    /\ Applied(d2) /\ dEv[d2].type = "customer.subscription.updated"
    /\ dRef[d1] = dRef[d2]
    /\ Field(users[dRef[d2]], "subscriptionCancelAt") = Num(MaxPeriodEnd)
    /\ Field(users[dRef[d2]], "subscriptionType") = Str("DEMANDX")
    /\ Field(users[dRef[d2]], "subscriptionStatus") = Str("active")

\* C13: when the customer of the event is stored on no user record and the
\* processor's customer has no metadata.uid, the delivery, whatever its event
\* type, ends at the lookup: answered 200 (500 if the lookup itself rejects)
\* with no user record written or created. No delivery reaches its write
\* without a user.
C13_UnresolvedUserIsNoOp ==
  [][\A d \in Deliveries :
       /\ (/\ pc[d] = "resolve"
           /\ getUserRefForCustomer(CustomerId(dEv[d], dObj[d])) = {""}
           /\ pc'[d] # "resolve")
          => /\ pc'[d] = "done"
             /\ resp'[d] \in {"200", "500"}
             /\ Fail(d) <=> resp'[d] = "500"
             /\ users' = users
             /\ uw'[d] = 0
       /\ pc'[d] = "write" => dRef'[d] \in Uids]_vars

\* Deliveries of a customer.subscription.deleted and of a refund event about
\* a customer of no user were answered 200 with the marker written and no
\* user record written.
C13_Witness ==
  /\ customers["cus_1"] = ""
  /\ \A u \in DOMAIN users : Field(users[u], "stripeCustomerId") # Str("cus_1")
  /\ \E d1, d2 \in Deliveries :
       /\ pc[d1] = "done" /\ resp[d1] = "200" /\ mw[d1] = 1 /\ uw[d1] = 0
       /\ dEv[d1].type = "customer.subscription.deleted"
       /\ pc[d2] = "done" /\ resp[d2] = "200" /\ mw[d2] = 1 /\ uw[d2] = 0
       /\ dEv[d2].type = "charge.refunded"

\* C14: a delivery, whatever its event type and branch, writes the marker
\* collection at most once and the users collection at most once, the user
\* record only after the marker, and neither when it is answered 400 or 200
\* duplicate.
C14_SideEffectBound ==
  \A d \in Deliveries :
    /\ mw[d] <= 1
    /\ uw[d] <= 1
    /\ uw[d] = 1 => mw[d] = 1
    /\ resp[d] \in {"400", "200 duplicate"} => mw[d] = 0 /\ uw[d] = 0

\* A refund.created delivery went through the marker write, the retrieve of
\* the charge, the lookup and the user write, and was answered 200.
C14_Witness ==
  \E d \in Deliveries :
    /\ Applied(d) /\ mw[d] = 1
    /\ dEv[d].type = "refund.created"
    /\ Field(users[dRef[d]], "lastRefundAmount") = Num(MaxAmount)

\* C15: requests served one at a time, a checkout for a user whose record
\* stores a customer id goes from the read of the record straight to the
\* session, created for that id, and neither creates a customer nor changes
\* the stored id; it creates a customer only when the record stores none,
\* then stores the new id and creates the session for it.
C15_CheckoutReusesCustomer ==
  [][\A c \in Calls :
       (cOp[c] # Nil /\ cOp[c].op = "checkout" /\ cpc[c] \notin {"idle", "done"})
       => LET stored == StoredCustomerId(cOp[c].uid)
          IN /\ (cpc[c] = "get" /\ stored # "" /\ cRes'[c] # "no response")
                  => cpc'[c] = "sessions.create" /\ cLocal'[c] = stored
             /\ cpc'[c] = "customers.create" => stored = ""
             /\ stored # "" => /\ customers' = customers
                               /\ StoredCustomerId(cOp[c].uid)' = stored
             /\ customers' # customers
                  => /\ cpc[c] = "customers.create"
                     /\ DOMAIN customers' = DOMAIN customers \cup {cLocal'[c]}
                     /\ cLocal'[c] \notin DOMAIN customers
             /\ (cpc[c] = "set" /\ cRes'[c] # "no response")
                  => StoredCustomerId(cOp[c].uid)' = cLocal[c]
             /\ cRes'[c] \in {"200", "303"}
                  => cpc[c] = "sessions.create" /\ cLocal[c] = stored /\ stored # ""]_vars

\* Two checkouts of a user who had no customer: the first created one and
\* stored its id, the second created none and the stored id is the first's.
C15_Witness ==
  /\ \A c \in {1, 2} : /\ cpc[c] = "done"
                       /\ cOp[c].op = "checkout"
                       /\ cOp[c].uid = "u1"
                       /\ cRes[c] \in {"200", "303"}
  /\ NewCustomerId(1) \in DOMAIN customers
  /\ NewCustomerId(2) \notin DOMAIN customers
  /\ StoredCustomerId("u1") = NewCustomerId(1)

\* C16: a checkout whose tier is no configured tier is answered 400, one with
\* a configured tier and no uid 401, both before the first await; while a
\* request with such a tier or without a uid is served, no customer is
\* created and no user record is written.
C16_RejectedCheckoutHasNoEffect ==
  [][\A c \in Calls :
       /\ (cpc[c] = "idle" /\ cRes'[c] \in {"400", "401"} /\ cOp'[c].op = "checkout")
            => users' = users /\ customers' = customers
       /\ (/\ cOp[c] # Nil /\ cOp[c].op = "checkout"
           /\ cpc[c] \notin {"idle", "done"}
           /\ (cOp[c].tier \notin Tiers \/ cOp[c].uid = ""))
            => users' = users /\ customers' = customers]_vars

\* The charge the preference order names for a request: the explicit charge
\* id, else the charge of the most recent invoice, else the most recent
\* charge ("" when there is none).
PreferredCharge(op) ==
  IF op.chargeId # "" THEN op.chargeId
  ELSE IF billing.invoice # "" THEN billing.invoice
  ELSE billing.latest

\* C17: in every version of the refund handler the charge handed to
\* stripe.refunds.create is the explicit charge id, else the charge of the
\* most recent invoice, else the most recent charge; and a request is
\* answered 400 for want of a charge only when that order yields none.
C17_ChargeResolutionOrder ==
  [][\A c \in Calls :
       (cOp[c] # Nil /\ cOp[c].op = "refund")
       => /\ cpc'[c] = "refunds.create" => cLocal'[c] = PreferredCharge(cOp[c])
          /\ (cpc[c] \in {"invoices.list", "charges.list"} /\ cRes'[c] = "400")
               => PreferredCharge(cOp[c]) = ""]_vars

\* C18: a refund request without a charge id for a customer that has no
\* charge, or for a user whose record stores no customer id, never reaches
\* stripe.refunds.create and writes nothing: it ends answered 400 (500 when
\* an awaited call rejects). A 400 is sent only before the refund is
\* requested, the user records as they were.
C18_NoChargeNoRefund ==
  [][\A c \in Calls :
       (/\ cOp[c] # Nil /\ cOp[c].op = "refund"
        /\ cpc[c] \notin {"idle", "done"}
        /\ cpc'[c] # cpc[c])
       => /\ (PreferredCharge(cOp[c]) = "" \/ StoredCustomerId(cOp[c].uid) = "")
               => /\ cpc'[c] \notin {"refunds.create", "set"}
                  /\ users' = users
                  /\ cpc'[c] = "done" => /\ cRes'[c] \in {"400", "500"}
                                         /\ cRes'[c] = "500" <=> RefundFail(c)
          /\ cRes'[c] = "400"
               => /\ users' = users
                  /\ cpc[c] \in {"get", "invoices.list", "charges.list"}]_vars

\* After a refund of an explicit charge the customer, who has no charge the
\* endpoint can find, asked again without a charge id and was answered 400;
\* the record still holds the first refund.
C18_Witness ==
  /\ billing = [invoice |-> "", latest |-> ""]
  /\ StoredCustomerId("u1") = "cus_1"
  /\ cpc[1] = "done" /\ cOp[1].op = "refund" /\ cRes[1] = "200"
  /\ cpc[2] = "done" /\ cOp[2].op = "refund" /\ cRes[2] = "400"
  /\ Field(users["u1"], "lastRefundId") = Str("re_1")
  /\ Field(users["u1"], "lastRefundAmount") = Num(MaxAmount)

\* C19 as stated: the second application of setUserSubscription or
\* setUserToFree with the same arguments leaves the record exactly as the
\* first left it.
C19_SecondWriteChangesNothing ==
  [][\A c \in Calls :
       (cpc[c] = "set.again" /\ cRes'[c] = "returned")
       => users'[cOp[c].uid] = cLocal[c]]_vars

\* C19, amended: the second application leaves the record as the first left
\* it in every field but updatedAt, which holds the time of the second write;
\* no field appears or disappears, and no other record changes.
C19_SecondWriteChangesOnlyUpdatedAt ==
  [][\A c \in Calls :
       (cpc[c] = "set.again" /\ cRes'[c] = "returned")
       => LET once == cLocal[c]
              twice == users'[cOp[c].uid]
          IN /\ DOMAIN twice = DOMAIN once
             /\ \A f \in DOMAIN once \ {"updatedAt"} : twice[f] = once[f]
             /\ twice["updatedAt"] = Num(now')
             /\ \A u \in DOMAIN users \ {cOp[c].uid} : users'[u] = users[u]]_vars

\* setUserSubscription was applied twice, at times 1 and 2, to the record of
\* a subscriber, and then setUserToFree twice to what it left.
C19_Witness ==
  /\ cpc[1] = "done" /\ cOp[1].op = "setUserSubscription" /\ cRes[1] = "returned"
  /\ cpc[2] = "done" /\ cOp[2].op = "setUserToFree" /\ cRes[2] = "returned"
  /\ Field(users["u1"], "subscriptionType") = Str("HIPSESSION")
  /\ Field(users["u1"], "stripeSubscriptionId") = Str("sub_1")
  /\ Field(users["u1"], "lastRefundId") = Str("re_1")
  /\ Field(users["u1"], "updatedAt") = Num(MaxNow)

C21_DroppedUpdate ==
  \A d1 \in Deliveries :
    (pc[d1] = "done" /\ resp[d1] = "500" /\ mw[d1] = 1)
    => /\ uw[d1] = 0
       /\ \A d2 \in Deliveries :
            (d2 # d1 /\ dSig[d2] /\ dEv[d2] # Nil /\ dEv[d2].id = dEv[d1].id)
            => /\ uw[d2] = 0
               /\ d2 > d1 => /\ mw[d2] = 0
                             /\ pc[d2] \in {"alreadyProcessed.get", "done"}
                             /\ pc[d2] = "done" => resp[d2] \in {"200 duplicate", "500"}

\* A customer.subscription.deleted event for the customer stored on u1 was
\* answered 500 after its marker was written, its retry was answered 200 as
\* a duplicate, and u1 was never downgraded.
C21_Witness ==
  \E d1, d2 \in Deliveries :
    /\ d1 < d2
    /\ pc[d1] = "done" /\ resp[d1] = "500" /\ mw[d1] = 1
    /\ dEv[d1].type = "customer.subscription.deleted"
    /\ pc[d2] = "done" /\ resp[d2] = "200 duplicate" /\ dEv[d2].id = dEv[d1].id
    /\ Field(StoredDoc(users, "u1"), "stripeCustomerId") = Str("cus_1")
    /\ Field(StoredDoc(users, "u1"), "subscriptionType") = Undefined

\* C22: however the checkout, portal and createStripeCustomerForUser
\* requests of a user overlap, at most one customer is created for the user
\* and the customer id stored on the record, once set, does not change.
C22_OneCustomerPerUser ==
  [][\A u \in Uids :
       /\ Cardinality({c \in Calls : /\ NewCustomerId(c) \in DOMAIN customers'
                                     /\ customers'[NewCustomerId(c)] = u}) <= 1
       /\ StoredCustomerId(u) # "" => StoredCustomerId(u)' = StoredCustomerId(u)]_vars

\* C23: no step of a billing operation (a delivery to webhook.ts, a checkout,
\* a portal or a refund request) adds a document to the users collection or
\* removes one.
C23_NoRecordCreatedOrDeleted ==
  [][(\A c \in Calls :
        cpc'[c] # cpc[c]
        => /\ cOp[c] # Nil
           /\ cOp[c].op \in {"checkout", "portal", "refund"})
     => DOMAIN users' = DOMAIN users]_vars

\* C24: in stripe-webhook.ts, once a delivery of an event has been answered
\* 200, a later delivery of the same event adds no visit document, commits no
\* library batch and writes no user record.
C24_RedeliveryWritesNothing ==
  [][\A c1 \in Calls : \A c2 \in Calls :
       (/\ c1 < c2
        /\ cpc[c1] = "done" /\ cRes[c1] = "200"
        /\ cpc[c2] \notin {"idle", "done"}
        /\ cOp[c2].uid = cOp[c1].uid)
       => /\ ~StripeWebhookVisitsAdd(c2)
          /\ ~StripeWebhookBatchCommit(c2)
          /\ ~StripeWebhookSet(c2)]_vars

\* C25: when stripe-webhook.ts has handled the checkout.session.completed
\* event of a session checkout.ts created for tier X and user U, U's
\* subscriptionType is X.
C25_CompletedSessionSetsTier ==
  \A c \in Calls :
    (cpc[c] = "done" /\ cOp[c].op = "stripe-webhook" /\ cRes[c] = "200")
    => Field(StoredDoc(users, billing.session.metadata.uid), "subscriptionType")
         = Str(billing.session.metadata.tier)

\* C26 (as stated): under every environment, for each tier T the price
\* PRICE_MAP holds for T maps back to T through PRICE_TO_TIER, and the three
\* price ids map to three tiers.
C26_TablesInverse ==
  \A c \in Calls :
    (cpc[c] = "done" /\ cOp[c].op = "tables")
    => /\ cRes[c] = cOp[c].tier
       /\ Cardinality({PriceToTierFrom(cOp[c].env)[k] :
                         k \in DOMAIN PriceToTierFrom(cOp[c].env)}) = 3

\* C26 (amended): the same, when the three environment variables hold
\* pairwise different values.
C26_TablesInverseWhenDistinct ==
  \A c \in Calls :
    (/\ cpc[c] = "done" /\ cOp[c].op = "tables"
     /\ Cardinality({cOp[c].env[n] : n \in EnvNames}) = 3)
    => /\ cRes[c] = cOp[c].tier
       /\ Cardinality({PriceToTierFrom(cOp[c].env)[k] :
                         k \in DOMAIN PriceToTierFrom(cOp[c].env)}) = 3

\* A round trip for DOBE_ONE under three different price ids has ended.
C26_Witness ==
  \E c \in Calls :
    /\ cpc[c] = "done" /\ cOp[c].op = "tables"
    /\ Cardinality({cOp[c].env[n] : n \in EnvNames}) = 3
    /\ cOp[c].tier = "DOBE_ONE"
    /\ cLocal[c] = "price_dobeone"
    /\ cRes[c] = "DOBE_ONE"

\* C27: every subscriptionType stored on a user record is one of HIPSESSION,
\* FREETRIAL, ADOB_SENSE, DOBE_ONE and DEMANDX.
C27_TierEnum ==
  \A u \in DOMAIN users :
    "subscriptionType" \in DOMAIN users[u]
    => users[u]["subscriptionType"]
         \in {Str(t) : t \in {"HIPSESSION", "FREETRIAL"} \cup Tiers}

\* C28: a checkout handler that has ended has sent a response: the 303
\* redirect, the 200 JSON url, or an error status.
C28_CheckoutAnswers ==
  \A c \in Calls :
    (cpc[c] = "done" /\ cOp[c].op = "checkout")
    => cRes[c] \in {"303", "200", "400", "401", "500"}

\* C29: lastRefundId and lastRefundAmount describe one refund: a step that
\* changes the lastRefundAmount of a record holding a lastRefundId stores the
\* id of the refund the new amount belongs to, so the id changes with it.
C29_RefundAuditConsistent ==
  [][\A u \in Uids :
       LET before == StoredDoc(users, u)
           after == StoredDoc(users', u)
       IN (/\ Field(before, "lastRefundId") # Undefined
           /\ Field(after, "lastRefundAmount") # Field(before, "lastRefundAmount"))
          => Field(after, "lastRefundId") # Field(before, "lastRefundId")]_vars

\* C30: a refund request whose caller named an amount a >= 0 sends exactly a
\* to the processor; the amount is left out only when the caller named none.
C30_ExplicitAmountSent ==
  \A c \in Calls :
    (cpc[c] = "refunds.create" /\ cOp[c].op = "refund" /\ cOp[c].asked # Undefined)
    => RefundAmountSent(cOp[c]) = cOp[c].asked

====
